---- MODULE Spec2Model ----
(***************************************************************************)
(* MSL (Macro Scripting Language) lexer and parser of msl-mcp-server.      *)
(*                                                                         *)
(* The lexer is src/mslmcpserver/msl/msl_lexer.py (MSLLexer), the parser   *)
(* is src/mslmcpserver/msl/msl_parser.py (MSLParser).  A text is a         *)
(* sequence of one-character strings; a token is the record of the Token   *)
(* dataclass with its value held as a sequence of characters.              *)
(*                                                                         *)
(* The parser names the token kinds SEQUENTIAL, DELAY_START, ... and calls *)
(* lexer.validate_tokens; the lexer under src/ names the same characters   *)
(* COMMA, LPAREN, ... and has no validate_tokens.  ParserKind and          *)
(* validate_tokens below are that missing glue.                            *)
(***************************************************************************)
EXTENDS Integers, Sequences, FiniteSets, TLC

VARIABLES script, phase, lexer, parser, outcome,
          forest, printer, nodes,
          tracker, tasks, clock

vars ==
    <<script, phase, lexer, parser, outcome, forest, printer, nodes, tracker, tasks, clock>>

(***************************************************************************)
(* Bounds of the input families.                                           *)
(***************************************************************************)
MaxFree == 3

MaxOps == 5

MaxTiming == 4

MaxPhrase == 3

MaxGap == 1

MaxBrackets == 4

MaxNesting == 4

MaxNodes == 3

MaxChildren == 2

MaxTasks == 3

(***************************************************************************)
(* Characters.                                                             *)
(***************************************************************************)
Digits == {"0", "1", "2", "3", "5", "7", "9"}

UpperLetters == {"A", "B", "C", "K", "Q", "W"}

LowerLetters == {"a", "b", "c", "k", "q", "w", "h", "e", "l", "u", "p", "d", "o", "n", "x",
                 "m"}

AsciiLetters == UpperLetters \cup LowerLetters

\* str.lower() on one character
Lower(c) ==
    CASE c = "A" -> "a"
      [] c = "B" -> "b"
      [] c = "C" -> "c"
      [] c = "K" -> "k"
      [] c = "Q" -> "q"
      [] c = "W" -> "w"
      [] OTHER -> c

\* [a-zA-Z_]
IdentStart == AsciiLetters \cup {"_"}

\* [a-zA-Z0-9_]
IdentChar == IdentStart \cup Digits

\* \s of the mouse_coord pattern
ReSpace == {" ", "\t", "\n"}

\* the characters skip_whitespace and the main loop treat as blank
Blank == {" ", "\t"}

(***************************************************************************)
(* Sequence helpers.                                                       *)
(***************************************************************************)
RECURSIVE Flatten(_)
Flatten(ss) == IF ss = <<>> THEN <<>> ELSE Head(ss) \o Flatten(Tail(ss))

RECURSIVE MapLower(_)
MapLower(s) == IF s = <<>> THEN <<>> ELSE <<Lower(Head(s))>> \o MapLower(Tail(s))

\* text[a:b] of Python, a and b 0-based
Slice(text, a, b) == IF b <= a THEN <<>> ELSE SubSeq(text, a + 1, b)

\* number of consecutive characters of text from 0-based offset p that lie in S
RECURSIVE CountWhile(_, _, _)
CountWhile(text, p, S) ==
    IF p < Len(text) /\ text[p + 1] \in S
    THEN 1 + CountWhile(text, p + 1, S)
    ELSE 0

\* number of consecutive characters from p other than the newline ('.' of re)
RECURSIVE CountLine(_, _)
CountLine(text, p) ==
    IF p < Len(text) /\ text[p + 1] # "\n"
    THEN 1 + CountLine(text, p + 1)
    ELSE 0

(***************************************************************************)
(* MSLLexer.                                                               *)
(***************************************************************************)
Token(type, value, line, column, position) ==
    [type |-> type, value |-> value, line |-> line, column |-> column,
     position |-> position]

\* the cursor of a lexer right after MSLLexer(text)
NewCursor == [position |-> 0, line |-> 1, column |-> 1]

current_char(text, cur) ==
    IF cur.position >= Len(text) THEN "None" ELSE text[cur.position + 1]

\* mutant: a line break is passed as any other character
advance_KeepsLine(text, cur) ==
    IF cur.position >= Len(text)
    THEN cur
    ELSE [position |-> cur.position + 1, line |-> cur.line, column |-> cur.column + 1]

advance(text, cur) ==
    IF cur.position >= Len(text)
    THEN cur
    ELSE IF text[cur.position + 1] = "\n"
         THEN [position |-> cur.position + 1, line |-> cur.line + 1, column |-> 1]
         ELSE [position |-> cur.position + 1, line |-> cur.line,
               column |-> cur.column + 1]

\* read_string: advance over the n characters of a match
RECURSIVE read_string(_, _, _)
read_string(text, cur, n) ==
    IF n = 0 THEN cur ELSE read_string(text, advance(text, cur), n - 1)

skip_whitespace(text, cur) ==
    read_string(text, cur, CountWhile(text, cur.position, Blank))

\* length of the match of \d+(\.\d+)? at offset p, 0 when there is none
NumberMatch(text, p) ==
    LET d1 == CountWhile(text, p, Digits)
        d2 == IF p + d1 < Len(text) /\ text[p + d1 + 1] = "."
              THEN CountWhile(text, p + d1 + 1, Digits)
              ELSE 0
    IN  IF d1 = 0 THEN 0 ELSE IF d2 > 0 THEN d1 + 1 + d2 ELSE d1

\* length of the match of [a-zA-Z_][a-zA-Z0-9_]* at offset p, 0 when none
IdentMatch(text, p) ==
    IF p < Len(text) /\ text[p + 1] \in IdentStart
    THEN 1 + CountWhile(text, p + 1, IdentChar)
    ELSE 0

\* the match of @\s*\(\s*(\d+)\s*,\s*(\d+)\s*\) at offset p:
\* [len, x, y], len = 0 when there is none
MouseMatch(text, p) ==
    LET Lit(q, c) == q < Len(text) /\ text[q + 1] = c
        p1 == p + 1
        p2 == p1 + CountWhile(text, p1, ReSpace)
        p3 == p2 + 1
        p4 == p3 + CountWhile(text, p3, ReSpace)
        p5 == p4 + CountWhile(text, p4, Digits)
        p6 == p5 + CountWhile(text, p5, ReSpace)
        p7 == p6 + 1
        p8 == p7 + CountWhile(text, p7, ReSpace)
        p9 == p8 + CountWhile(text, p8, Digits)
        p10 == p9 + CountWhile(text, p9, ReSpace)
        none == [len |-> 0, x |-> <<>>, y |-> <<>>]
    IN  IF /\ Lit(p, "@")
           /\ Lit(p2, "(")
           /\ p5 > p4
           /\ Lit(p6, ",")
           /\ p9 > p8
           /\ Lit(p10, ")")
        THEN [len |-> p10 + 1 - p, x |-> Slice(text, p4, p5), y |-> Slice(text, p8, p9)]
        ELSE none

\* mutant: the token keeps the matched text, blanks included
tokenize_mouse_coord_KeepsText(text, cur) ==
    LET m == MouseMatch(text, cur.position)
    IN  IF m.len > 0
        THEN [cur |-> read_string(text, cur, m.len),
              emit |-> <<Token("MOUSE_COORD",
                               Slice(text, cur.position, cur.position + m.len),
                               cur.line, cur.column, cur.position)>>]
        ELSE [cur |-> advance(text, cur),
              emit |-> <<Token("UNKNOWN", <<"@">>, cur.line, cur.column, cur.position)>>]

tokenize_mouse_coord(text, cur) ==
    LET m == MouseMatch(text, cur.position)
    IN  IF m.len > 0
        THEN [cur |-> read_string(text, cur, m.len),
              emit |-> <<Token("MOUSE_COORD", <<"@", "(">> \o m.x \o <<",">> \o m.y \o <<")">>,
                               cur.line, cur.column, cur.position)>>]
        ELSE [cur |-> advance(text, cur),
              emit |-> <<Token("UNKNOWN", <<"@">>, cur.line, cur.column, cur.position)>>]

\* mutant: a '$' without a name swallows the character after it
tokenize_variable_SwallowsNext(text, cur) ==
    LET n == IdentMatch(text, cur.position + 1)
    IN  IF n > 0
        THEN [cur |-> read_string(text, cur, n + 1),
              emit |-> <<Token("VARIABLE",
                               Slice(text, cur.position + 1, cur.position + 1 + n),
                               cur.line, cur.column, cur.position)>>]
        ELSE [cur |-> read_string(text, cur, 2),
              emit |-> <<Token("UNKNOWN", <<"$">>, cur.line, cur.column, cur.position)>>]

tokenize_variable(text, cur) ==
    LET n == IdentMatch(text, cur.position + 1)
    IN  IF n > 0
        THEN [cur |-> read_string(text, cur, n + 1),
              emit |-> <<Token("VARIABLE",
                               Slice(text, cur.position + 1, cur.position + 1 + n),
                               cur.line, cur.column, cur.position)>>]
        ELSE [cur |-> advance(text, cur),
              emit |-> <<Token("UNKNOWN", <<"$">>, cur.line, cur.column, cur.position)>>]

tokenize_number(text, cur) ==
    LET n == NumberMatch(text, cur.position)
    IN  [cur |-> read_string(text, cur, n),
         emit |-> <<Token("NUMBER", Slice(text, cur.position, cur.position + n),
                          cur.line, cur.column, cur.position)>>]

WheelUp == <<"w", "h", "e", "e", "l", "_", "u", "p">>

WheelDown == <<"w", "h", "e", "e", "l", "_", "d", "o", "w", "n">>

tokenize_identifier(text, cur) ==
    LET n == IdentMatch(text, cur.position)
        identifier == MapLower(Slice(text, cur.position, cur.position + n))
    IN  [cur |-> read_string(text, cur, n),
         emit |-> <<Token(IF identifier \in {WheelUp, WheelDown} THEN "WHEEL" ELSE "KEY",
                          identifier, cur.line, cur.column, cur.position)>>]

tokenize_comment(text, cur) ==
    LET n == 1 + CountLine(text, cur.position + 1)
    IN  [cur |-> read_string(text, cur, n),
         emit |-> <<Token("COMMENT", Slice(text, cur.position, cur.position + n),
                          cur.line, cur.column, cur.position)>>]

tokenize_angle_bracket(text, cur) ==
    LET char == current_char(text, cur)
    IN  [cur |-> advance(text, cur),
         emit |-> <<Token(IF char = "<" THEN "LANGLE" ELSE "GREATER", <<char>>,
                          cur.line, cur.column, cur.position)>>]

\* mutant: the newline is taken for the end of the input
single_char_tokens_NewlineIsEOF(char) ==
    CASE char = "," -> "COMMA"
      [] char = "+" -> "PLUS"
      [] char = "|" -> "PIPE"
      [] char = "~" -> "TILDE"
      [] char = "*" -> "STAR"
      [] char = "&" -> "AMPERSAND"
      [] char = "(" -> "LPAREN"
      [] char = ")" -> "RPAREN"
      [] char = "[" -> "LBRACKET"
      [] char = "]" -> "RBRACKET"
      [] char = "{" -> "LBRACE"
      [] char = "}" -> "RBRACE"
      [] char = "\n" -> "EOF"
      [] OTHER -> "UNKNOWN"

single_char_tokens(char) ==
    CASE char = "," -> "COMMA"
      [] char = "+" -> "PLUS"
      [] char = "|" -> "PIPE"
      [] char = "~" -> "TILDE"
      [] char = "*" -> "STAR"
      [] char = "&" -> "AMPERSAND"
      [] char = "(" -> "LPAREN"
      [] char = ")" -> "RPAREN"
      [] char = "[" -> "LBRACKET"
      [] char = "]" -> "RBRACKET"
      [] char = "{" -> "LBRACE"
      [] char = "}" -> "RBRACE"
      [] char = "\n" -> "NEWLINE"
      [] OTHER -> "UNKNOWN"

tokenize_single_char(text, cur) ==
    LET char == current_char(text, cur)
    IN  [cur |-> advance(text, cur),
         emit |-> <<Token(single_char_tokens(char), <<char>>,
                          cur.line, cur.column, cur.position)>>]

\* one iteration of the while loop of tokenize, taken with position < len(text)
LexStep(text, cur) ==
    LET char == current_char(text, cur)
    IN  IF char \in Blank
        THEN [cur |-> skip_whitespace(text, cur), emit |-> <<>>]
        ELSE IF char = "#" THEN tokenize_comment(text, cur)
        ELSE IF char = "@" THEN tokenize_mouse_coord(text, cur)
        ELSE IF char = "$" THEN tokenize_variable(text, cur)
        ELSE IF char \in {"<", ">"} THEN tokenize_angle_bracket(text, cur)
        ELSE IF char \in Digits THEN tokenize_number(text, cur)
        ELSE IF char \in IdentStart THEN tokenize_identifier(text, cur)
        ELSE tokenize_single_char(text, cur)

\* the while loop of tokenize and the EOF it appends: [cur, tokens]
RECURSIVE LexLoop(_, _, _)
LexLoop(text, cur, toks) ==
    IF cur.position < Len(text)
    THEN LET s == LexStep(text, cur)
         IN  LexLoop(text, s.cur, toks \o s.emit)
    ELSE [cur |-> cur,
          tokens |-> Append(toks, Token("EOF", <<>>, cur.line, cur.column, cur.position))]

\* MSLLexer.tokenize on a lexer whose cursor is cur; self.tokens starts empty
tokenize(text, cur) == LexLoop(text, cur, <<>>)

\* MSLLexer.get_tokens_by_type
get_tokens_by_type(tokens, token_type) ==
    SelectSeq(tokens, LAMBDA t : t.type = token_type)

(***************************************************************************)
(* validate_msl_syntax.  A diagnostic is the record of what its message    *)
(* names: its kind, the opening token and the closing or unknown token.    *)
(***************************************************************************)
OpenTypes == {"LPAREN", "LBRACKET", "LBRACE", "LANGLE"}

\* bracket_pairs.values()
CloseTypes == {"RPAREN", "RBRACKET", "RBRACE", "RANGLE"}

bracket_pairs(open_type) ==
    CASE open_type = "LPAREN" -> "RPAREN"
      [] open_type = "LBRACKET" -> "RBRACKET"
      [] open_type = "LBRACE" -> "RBRACE"
      [] open_type = "LANGLE" -> "RANGLE"

Diagnostic(kind, open_token, token) ==
    [kind |-> kind, open_token |-> open_token, token |-> token]

\* the body of the for loop over the tokens: [stack, errors] after token
bracket_step(stack, errors, token) ==
    IF token.type \in OpenTypes
    THEN [stack |-> Append(stack, token), errors |-> errors]
    ELSE IF token.type \in CloseTypes
    THEN IF stack = <<>>
         THEN [stack |-> stack,
               errors |-> Append(errors, Diagnostic("unmatched_closing", <<>>, <<token>>))]
         ELSE IF token.type # bracket_pairs(stack[Len(stack)].type)
         THEN [stack |-> SubSeq(stack, 1, Len(stack) - 1),
               errors |-> Append(errors, Diagnostic("mismatched", <<stack[Len(stack)]>>,
                                                    <<token>>))]
         ELSE [stack |-> SubSeq(stack, 1, Len(stack) - 1), errors |-> errors]
    ELSE [stack |-> stack, errors |-> errors]

RECURSIVE bracket_scan(_, _, _)

\* mutant: the scan of the tokens ends at the first mismatched bracket
bracket_scan_StopsAtMismatch(tokens, i, s) ==
    IF i > Len(tokens) THEN s
    ELSE IF s.errors # <<>> /\ s.errors[Len(s.errors)].kind = "mismatched" THEN s
    ELSE bracket_scan(tokens, i + 1, bracket_step(s.stack, s.errors, tokens[i]))

\* the for loop over the tokens, from the token of index i on
bracket_scan(tokens, i, s) ==
    IF i > Len(tokens) THEN s
    ELSE bracket_scan(tokens, i + 1, bracket_step(s.stack, s.errors, tokens[i]))

\* mutant: one "unclosed" diagnostic in all, for the innermost open bracket
unclosed_errors_OnlyTop(stack) ==
    IF stack = <<>> THEN <<>>
    ELSE <<Diagnostic("unclosed", <<stack[Len(stack)]>>, <<>>)>>

\* one "unclosed" diagnostic for each entry left on the stack
unclosed_errors(stack) ==
    [k \in 1..Len(stack) |-> Diagnostic("unclosed", <<stack[k]>>, <<>>)]

\* mutant: the first UNKNOWN token alone is reported
unknown_errors_FirstOnly(tokens) ==
    LET unknown_tokens == get_tokens_by_type(tokens, "UNKNOWN")
    IN  IF unknown_tokens = <<>> THEN <<>>
        ELSE <<Diagnostic("unknown", <<>>, <<unknown_tokens[1]>>)>>

\* one "unknown token" diagnostic for each UNKNOWN token of the lexer
unknown_errors(tokens) ==
    LET unknown_tokens == get_tokens_by_type(tokens, "UNKNOWN")
    IN  [k \in 1..Len(unknown_tokens) |-> Diagnostic("unknown", <<>>, <<unknown_tokens[k]>>)]

\* the diagnostics of a token sequence
bracket_errors(tokens) ==
    LET s == bracket_scan(tokens, 1, [stack |-> <<>>, errors |-> <<>>])
    IN  s.errors \o unclosed_errors(s.stack) \o unknown_errors(tokens)

\* validate_msl_syntax(text): the pair it returns
validate_msl_syntax(text) ==
    LET errors == bracket_errors(tokenize(text, NewCursor).tokens)
    IN  [valid |-> errors = <<>>, errors |-> errors]

(***************************************************************************)
(* Numbers: float(str) and int(float(str)).  A float is held exactly, as   *)
(* its whole part and the digits of its fraction without trailing zeros.   *)
(***************************************************************************)
DigitVal(c) ==
    CASE c = "0" -> 0
      [] c = "1" -> 1
      [] c = "2" -> 2
      [] c = "3" -> 3
      [] c = "5" -> 5
      [] c = "7" -> 7
      [] c = "9" -> 9

\* int(str) of a string of digits
RECURSIVE ToInt(_)
ToInt(ds) ==
    IF ds = <<>> THEN 0 ELSE ToInt(SubSeq(ds, 1, Len(ds) - 1)) * 10 + DigitVal(ds[Len(ds)])

RECURSIVE TrimZeros(_)
TrimZeros(ds) ==
    IF ds # <<>> /\ ds[Len(ds)] = "0" THEN TrimZeros(SubSeq(ds, 1, Len(ds) - 1)) ELSE ds

\* float(str) of the text of a NUMBER token
ToFloat(value) ==
    LET w == CountWhile(value, 0, Digits)
    IN  [whole |-> ToInt(Slice(value, 0, w)),
         frac |-> TrimZeros(Slice(value, w + 1, Len(value)))]

\* int(float)
FloatToInt(f) == f.whole

(***************************************************************************)
(* The token kinds as MSLParser names them, and the token validation it    *)
(* calls before parsing.                                                    *)
(***************************************************************************)
ParserKind(type) ==
    CASE type = "COMMA" -> "SEQUENTIAL"
      [] type = "PLUS" -> "SIMULTANEOUS"
      [] type = "PIPE" -> "PARALLEL"
      [] type = "GREATER" -> "HOLD_CHAIN"
      [] type = "AMPERSAND" -> "CONTINUOUS"
      [] type = "STAR" -> "REPEAT"
      [] type = "TILDE" -> "TOGGLE"
      [] type = "LPAREN" -> "DELAY_START"
      [] type = "RPAREN" -> "DELAY_END"
      [] type = "LBRACKET" -> "HOLD_START"
      [] type = "RBRACKET" -> "HOLD_END"
      [] type = "LBRACE" -> "INTERVAL_START"
      [] type = "RBRACE" -> "INTERVAL_END"
      [] type = "LANGLE" -> "FADE_START"
      [] OTHER -> type

\* lexer.validate_tokens: one error for each UNKNOWN token
validate_tokens(tokens) == SelectSeq(tokens, LAMBDA t : t.type = "UNKNOWN")

(***************************************************************************)
(* MSLParser: the cursor, the results of the parse functions, the nodes.   *)
(* None is the empty sequence, a present value v is <<v>>.                 *)
(***************************************************************************)
None == <<>>

\* the cursor after step 4 of parse
StartCursor(tokens) ==
    [current_position |-> 0,
     current_token |-> IF tokens = <<>> THEN None ELSE <<tokens[1]>>]

\* MSLParser.advance
p_advance(tokens, c) ==
    IF c.current_position < Len(tokens) - 1
    THEN [current_position |-> c.current_position + 1,
          current_token |-> <<tokens[c.current_position + 2]>>]
    ELSE [current_position |-> c.current_position, current_token |-> None]

\* MSLParser.match
match(c, token_types) ==
    /\ c.current_token # None
    /\ ParserKind(c.current_token[1].type) \in token_types

Returned(node, c) == [ok |-> TRUE, node |-> node, c |-> c]

\* raise ParseError(message, token)
ParseError(message, token, c) ==
    [ok |-> FALSE, error |-> "ParseError", message |-> message, token |-> token, c |-> c]

\* an IndexError raised inside the parse functions
IndexError(c) ==
    [ok |-> FALSE, error |-> "IndexError", message |-> "IndexError", token |-> None, c |-> c]

\* MSLParser.expect: the token is in .node when it returns
expect(tokens, c, token_type) ==
    IF ~match(c, {token_type})
    THEN ParseError("expected " \o token_type, c.current_token, c)
    ELSE Returned(c.current_token[1], p_advance(tokens, c))

\* MSLParser._get_position
_get_position(c, token) ==
    IF token # None
    THEN [line |-> token[1].line, column |-> token[1].column]
    ELSE IF c.current_token # None
         THEN [line |-> c.current_token[1].line, column |-> c.current_token[1].column]
         ELSE [line |-> 1, column |-> 1]

\* MSLNode.__init__ of an operator, timing or group node
Node(type, position) == [type |-> type, position |-> position, children |-> <<>>]

\* MSLNode.add_child
add_child(node, child) == [node EXCEPT !.children = Append(@, child)]

\* node.duration = d on a timing or continuous node
set_duration(node, d) ==
    [type |-> node.type, position |-> node.position, children |-> node.children,
     duration |-> d]

(***************************************************************************)
(* MSLParser: the recursive descent.  Every parse function takes the token *)
(* list and the cursor and gives Returned(node, cursor) or the exception   *)
(* it raises.                                                              *)
(***************************************************************************)
RECURSIVE parse_expression(_, _)
RECURSIVE parse_sequential(_, _)
RECURSIVE sequential_loop(_, _, _)
RECURSIVE parse_simultaneous(_, _)
RECURSIVE simultaneous_loop(_, _, _)
RECURSIVE parse_parallel(_, _)
RECURSIVE parallel_loop(_, _, _)
RECURSIVE parse_hold_chain(_, _)
RECURSIVE hold_chain_loop(_, _, _)
RECURSIVE parse_continuous(_, _)
RECURSIVE parse_repeat(_, _)
RECURSIVE parse_toggle(_, _)
RECURSIVE parse_primary(_, _)
RECURSIVE parse_group(_, _)

\* a timing node around result once the closing bracket was expected
timing_node(type, result, number_token, close) ==
    IF ~close.ok THEN close
    ELSE Returned(set_duration(add_child(Node(type, _get_position(close.c, None)), result),
                               ToFloat(number_token.node.value)),
                  close.c)

\* the delay branch of parse_timing_modifiers, the '(' consumed
delay_number(tokens, c1, result) ==
    IF ~match(c1, {"NUMBER"})
    THEN ParseError("delay needs a number", c1.current_token, c1)
    ELSE timing_node("DelayNode", result, expect(tokens, c1, "NUMBER"),
                     expect(tokens, expect(tokens, c1, "NUMBER").c, "DELAY_END"))

\* the delay branch of parse_timing_modifiers
timing_delay(tokens, c, result) ==
    IF ~match(c, {"DELAY_START"}) THEN Returned(result, c)
    ELSE delay_number(tokens, p_advance(tokens, c), result)

\* the hold branch of parse_timing_modifiers, the '[' consumed
hold_number(tokens, c1, result) ==
    IF ~match(c1, {"NUMBER"})
    THEN ParseError("hold needs a number", c1.current_token, c1)
    ELSE timing_node("HoldNode", result, expect(tokens, c1, "NUMBER"),
                     expect(tokens, expect(tokens, c1, "NUMBER").c, "HOLD_END"))

\* the hold branch of parse_timing_modifiers
timing_hold(tokens, c, result) ==
    IF ~match(c, {"HOLD_START"}) THEN Returned(result, c)
    ELSE hold_number(tokens, p_advance(tokens, c), result)

\* the fade node around result: built right after the number, the closing '>'
\* is not consumed
fade_node(result, fade_token) ==
    Returned(set_duration(add_child(Node("FadeNode", _get_position(fade_token.c, None)),
                                    result),
                          ToFloat(fade_token.node.value)),
             fade_token.c)

\* the fade branch of parse_timing_modifiers, the '<' consumed
fade_number(tokens, c1, result) ==
    IF ~match(c1, {"NUMBER"})
    THEN ParseError("fade needs a number", c1.current_token, c1)
    ELSE fade_node(result, expect(tokens, c1, "NUMBER"))

\* the fade branch of parse_timing_modifiers
timing_fade(tokens, c, result) ==
    IF ~match(c, {"FADE_START"}) THEN Returned(result, c)
    ELSE fade_number(tokens, p_advance(tokens, c), result)

\* the next branch of parse_timing_modifiers after the branch that gave r
then_hold(tokens, r) == IF ~r.ok THEN r ELSE timing_hold(tokens, r.c, r.node)

then_delay(tokens, r) == IF ~r.ok THEN r ELSE timing_delay(tokens, r.c, r.node)

then_fade(tokens, r) == IF ~r.ok THEN r ELSE timing_fade(tokens, r.c, r.node)

\* mutant: the hold suffix is looked for before the delay suffix
parse_timing_modifiers_HoldFirst(tokens, c, base_node) ==
    then_fade(tokens, then_delay(tokens, timing_hold(tokens, c, base_node)))

\* MSLParser.parse_timing_modifiers
parse_timing_modifiers(tokens, c, base_node) ==
    then_fade(tokens, then_hold(tokens, timing_delay(tokens, c, base_node)))

\* the fields of str.split(sep)
RECURSIVE Split(_, _)
Split(s, sep) ==
    LET n == CountWhile(s, 0, {ch \in {s[i] : i \in 1..Len(s)} : ch # sep})
    IN  IF n = Len(s) THEN <<s>>
        ELSE <<Slice(s, 0, n)>> \o Split(Slice(s, n + 1, Len(s)), sep)

Contains(s, ch) == \E i \in 1..Len(s) : s[i] = ch

\* the key branch of parse_primary
primary_key(tokens, c) ==
    LET key_token == expect(tokens, c, "KEY")
        key_node == [type |-> "KeyNode",
                     position |-> _get_position(key_token.c, <<key_token.node>>),
                     children |-> <<>>,
                     key |-> key_token.node.value]
    IN  parse_timing_modifiers(tokens, key_token.c, key_node)

\* the variable branch of parse_primary
primary_variable(tokens, c) ==
    LET var_token == expect(tokens, c, "VARIABLE")
    IN  Returned([type |-> "VariableNode",
                  position |-> _get_position(var_token.c, <<var_token.node>>),
                  children |-> <<>>,
                  name |-> Slice(var_token.node.value, 1, Len(var_token.node.value))],
                 var_token.c)

\* the mouse coordinate branch of parse_primary
primary_mouse(tokens, c) ==
    LET coord_token == expect(tokens, c, "MOUSE_COORD")
        coord_str == Slice(coord_token.node.value, 2, Len(coord_token.node.value) - 1)
        xy == Split(coord_str, ",")
    IN  Returned([type |-> "MouseNode",
                  position |-> _get_position(coord_token.c, <<coord_token.node>>),
                  children |-> <<>>,
                  x |-> ToInt(xy[1]),
                  y |-> ToInt(xy[2])],
                 coord_token.c)

\* the wheel branch of parse_primary
primary_wheel(tokens, c) ==
    LET wheel_token == expect(tokens, c, "WHEEL")
        wheel_str == wheel_token.node.value
        direction == IF Contains(wheel_str, "+") THEN 1 ELSE -1
        fields == Split(wheel_str, IF Contains(wheel_str, "+") THEN "+" ELSE "-")
    IN  IF Len(fields) < 2 THEN IndexError(wheel_token.c)
        ELSE Returned([type |-> "WheelNode",
                       position |-> _get_position(wheel_token.c, <<wheel_token.node>>),
                       children |-> <<>>,
                       direction |-> direction,
                       amount |-> IF fields[2] # <<>> THEN ToInt(fields[2]) ELSE 1],
                      wheel_token.c)

\* the number branch of parse_primary
primary_number(tokens, c) ==
    LET number_token == expect(tokens, c, "NUMBER")
    IN  Returned([type |-> "NumberNode",
                  position |-> _get_position(number_token.c, <<number_token.node>>),
                  children |-> <<>>,
                  value |-> ToFloat(number_token.node.value)],
                 number_token.c)

\* MSLParser.parse_primary
parse_primary(tokens, c) ==
    IF c.current_token = None THEN ParseError("unexpected end of script", None, c)
    ELSE IF match(c, {"DELAY_START"}) THEN parse_group(tokens, c)
    ELSE IF match(c, {"KEY"}) THEN primary_key(tokens, c)
    ELSE IF match(c, {"VARIABLE"}) THEN primary_variable(tokens, c)
    ELSE IF match(c, {"MOUSE_COORD"}) THEN primary_mouse(tokens, c)
    ELSE IF match(c, {"WHEEL"}) THEN primary_wheel(tokens, c)
    ELSE IF match(c, {"NUMBER"}) THEN primary_number(tokens, c)
    ELSE ParseError("unexpected token", c.current_token, c)

\* the end of parse_group: the ')' expected, inner_expr returned as it is
group_close(inner_expr, close) ==
    IF ~close.ok THEN close ELSE Returned(inner_expr.node, close.c)

\* parse_group after the expression inside the parentheses
group_inner(tokens, inner_expr) ==
    IF ~inner_expr.ok THEN inner_expr
    ELSE group_close(inner_expr, expect(tokens, inner_expr.c, "DELAY_END"))

\* parse_group after the '('
group_open(tokens, open) ==
    IF ~open.ok THEN open
    ELSE group_inner(tokens, parse_expression(tokens, open.c))

\* MSLParser.parse_group
parse_group(tokens, c) == group_open(tokens, expect(tokens, c, "DELAY_START"))

\* parse_toggle after the operand of '~'
toggle_node(base_node) ==
    IF ~base_node.ok THEN base_node
    ELSE Returned(add_child(Node("ToggleNode", _get_position(base_node.c, None)),
                            base_node.node),
                  base_node.c)

\* MSLParser.parse_toggle
parse_toggle(tokens, c) ==
    IF match(c, {"TOGGLE"})
    THEN toggle_node(parse_primary(tokens, p_advance(tokens, c)))
    ELSE parse_primary(tokens, c)

\* the end of the {interval} of parse_repeat
interval_close(repeat_node, interval_token, close) ==
    IF ~close.ok THEN close
    ELSE Returned([repeat_node EXCEPT !.interval = <<ToFloat(interval_token.node.value)>>],
                  close.c)

\* the optional {interval} of parse_repeat
repeat_interval(tokens, c, repeat_node) ==
    IF ~match(c, {"INTERVAL_START"}) THEN Returned(repeat_node, c)
    ELSE IF ~match(p_advance(tokens, c), {"NUMBER"})
    THEN ParseError("interval needs a number", p_advance(tokens, c).current_token,
                    p_advance(tokens, c))
    ELSE interval_close(repeat_node,
                        expect(tokens, p_advance(tokens, c), "NUMBER"),
                        expect(tokens, expect(tokens, p_advance(tokens, c), "NUMBER").c,
                               "INTERVAL_END"))

\* mutant: the repeated operand is not made a child of the repeat node
repeat_count_DropsOperand(tokens, left, count_token) ==
    repeat_interval(tokens, count_token.c,
                    [type |-> "RepeatNode",
                     position |-> _get_position(count_token.c, None),
                     children |-> <<>>,
                     count |-> FloatToInt(ToFloat(count_token.node.value)),
                     interval |-> None])

\* the repeat node of left once the count token was expected
repeat_count(tokens, left, count_token) ==
    repeat_interval(tokens, count_token.c,
                    [type |-> "RepeatNode",
                     position |-> _get_position(count_token.c, None),
                     children |-> <<left.node>>,
                     count |-> FloatToInt(ToFloat(count_token.node.value)),
                     interval |-> None])

\* mutant: the missing count is reported at the '*' instead of the token after it
repeat_star_BlamesOperator(tokens, left, c1) ==
    IF ~match(c1, {"NUMBER"})
    THEN ParseError("repeat needs a count", left.c.current_token, c1)
    ELSE repeat_count(tokens, left, expect(tokens, c1, "NUMBER"))

\* parse_repeat with the '*' consumed, the cursor c1 after it
repeat_star(tokens, left, c1) ==
    IF ~match(c1, {"NUMBER"})
    THEN ParseError("repeat needs a count", c1.current_token, c1)
    ELSE repeat_count(tokens, left, expect(tokens, c1, "NUMBER"))

\* parse_repeat after its operand
repeat_left(tokens, left) ==
    IF ~left.ok THEN left
    ELSE IF match(left.c, {"REPEAT"})
    THEN repeat_star(tokens, left, p_advance(tokens, left.c))
    ELSE left

\* MSLParser.parse_repeat
parse_repeat(tokens, c) == repeat_left(tokens, parse_toggle(tokens, c))

\* the continuous node of left once the duration token was expected
continuous_duration(left, duration_token) ==
    Returned(set_duration(add_child(Node("ContinuousNode",
                                         _get_position(duration_token.c, None)),
                                    left.node),
                          ToFloat(duration_token.node.value)),
             duration_token.c)

\* parse_continuous with the '&' consumed, the cursor c1 after it
continuous_amp(tokens, left, c1) ==
    IF ~match(c1, {"NUMBER"})
    THEN ParseError("continuous needs a time", c1.current_token, c1)
    ELSE continuous_duration(left, expect(tokens, c1, "NUMBER"))

\* parse_continuous after its operand
continuous_left(tokens, left) ==
    IF ~left.ok THEN left
    ELSE IF match(left.c, {"CONTINUOUS"})
    THEN continuous_amp(tokens, left, p_advance(tokens, left.c))
    ELSE left

\* mutant: the operand of '&' is parsed at the level of the toggle
parse_continuous_SkipsRepeat(tokens, c) == continuous_left(tokens, parse_toggle(tokens, c))

\* MSLParser.parse_continuous
parse_continuous(tokens, c) == continuous_left(tokens, parse_repeat(tokens, c))

\* the body of the while loop of parse_hold_chain after the operand right
hold_chain_right(tokens, hold_chain_node, right) ==
    IF ~right.ok THEN right
    ELSE hold_chain_loop(tokens, right.c, add_child(hold_chain_node, right.node))

\* the while loop of parse_hold_chain
hold_chain_loop(tokens, c, hold_chain_node) ==
    IF match(c, {"HOLD_CHAIN"})
    THEN hold_chain_right(tokens, hold_chain_node,
                          parse_continuous(tokens, p_advance(tokens, c)))
    ELSE Returned(hold_chain_node, c)

\* parse_hold_chain after its first operand
hold_chain_left(tokens, left) ==
    IF ~left.ok THEN left
    ELSE IF match(left.c, {"HOLD_CHAIN"})
    THEN hold_chain_loop(tokens, left.c,
           add_child(Node("HoldChainNode", _get_position(left.c, None)), left.node))
    ELSE left

\* MSLParser.parse_hold_chain
parse_hold_chain(tokens, c) == hold_chain_left(tokens, parse_continuous(tokens, c))

\* the body of the while loop of parse_parallel after the operand right
parallel_right(tokens, parallel_node, right) ==
    IF ~right.ok THEN right
    ELSE parallel_loop(tokens, right.c, add_child(parallel_node, right.node))

\* the while loop of parse_parallel
parallel_loop(tokens, c, parallel_node) ==
    IF match(c, {"PARALLEL"})
    THEN parallel_right(tokens, parallel_node,
                        parse_hold_chain(tokens, p_advance(tokens, c)))
    ELSE Returned(parallel_node, c)

\* parse_parallel after its first operand
parallel_left(tokens, left) ==
    IF ~left.ok THEN left
    ELSE IF match(left.c, {"PARALLEL"})
    THEN parallel_loop(tokens, left.c,
           add_child(Node("ParallelNode", _get_position(left.c, None)), left.node))
    ELSE left

\* mutant: the first operand of '|' is parsed one level too deep, below '>'
parse_parallel_SkipsHoldChain(tokens, c) ==
    parallel_left(tokens, parse_continuous(tokens, c))

\* MSLParser.parse_parallel
parse_parallel(tokens, c) == parallel_left(tokens, parse_hold_chain(tokens, c))

\* the body of the while loop of parse_simultaneous after the operand right
simultaneous_right(tokens, simultaneous_node, right) ==
    IF ~right.ok THEN right
    ELSE simultaneous_loop(tokens, right.c, add_child(simultaneous_node, right.node))

\* the while loop of parse_simultaneous
simultaneous_loop(tokens, c, simultaneous_node) ==
    IF match(c, {"SIMULTANEOUS"})
    THEN simultaneous_right(tokens, simultaneous_node,
                            parse_parallel(tokens, p_advance(tokens, c)))
    ELSE Returned(simultaneous_node, c)

\* parse_simultaneous after its first operand
simultaneous_left(tokens, left) ==
    IF ~left.ok THEN left
    ELSE IF match(left.c, {"SIMULTANEOUS"})
    THEN simultaneous_loop(tokens, left.c,
           add_child(Node("SimultaneousNode", _get_position(left.c, None)), left.node))
    ELSE left

\* MSLParser.parse_simultaneous
parse_simultaneous(tokens, c) == simultaneous_left(tokens, parse_parallel(tokens, c))

\* mutant: every further operand nests the chain built so far in a new pair
sequential_right_Nested(tokens, sequential_node, right) ==
    IF ~right.ok THEN right
    ELSE IF Len(sequential_node.children) < 2
    THEN sequential_loop(tokens, right.c, add_child(sequential_node, right.node))
    ELSE sequential_loop(tokens, right.c,
           add_child(add_child(Node("SequentialNode", sequential_node.position),
                               sequential_node),
                     right.node))

\* the body of the while loop of parse_sequential after the operand right
sequential_right(tokens, sequential_node, right) ==
    IF ~right.ok THEN right
    ELSE sequential_loop(tokens, right.c, add_child(sequential_node, right.node))

\* the while loop of parse_sequential
sequential_loop(tokens, c, sequential_node) ==
    IF match(c, {"SEQUENTIAL"})
    THEN sequential_right(tokens, sequential_node,
                          parse_simultaneous(tokens, p_advance(tokens, c)))
    ELSE Returned(sequential_node, c)

\* parse_sequential after its first operand
sequential_left(tokens, left) ==
    IF ~left.ok THEN left
    ELSE IF match(left.c, {"SEQUENTIAL"})
    THEN sequential_loop(tokens, left.c,
           add_child(Node("SequentialNode", _get_position(left.c, None)), left.node))
    ELSE left

\* MSLParser.parse_sequential
parse_sequential(tokens, c) == sequential_left(tokens, parse_simultaneous(tokens, c))

\* MSLParser.parse_expression
parse_expression(tokens, c) == parse_sequential(tokens, c)

\* step 2 of parse: drop the COMMENT and WHITESPACE tokens
FilterTokens(tokens) ==
    SelectSeq(tokens, LAMBDA t : t.type \notin {"COMMENT", "WHITESPACE"})

\* mutant: the tree is returned whatever is left of the token stream
finish_parse_NoTrailingCheck(r) ==
    IF r.ok
    THEN r
    ELSE IF r.error = "IndexError"
         THEN ParseError("unexpected end of script", None, r.c)
         ELSE r

\* the end of parse: the check that every token was consumed, and the
\* IndexError handler
finish_parse(r) ==
    IF r.ok
    THEN IF r.c.current_token # None /\ r.c.current_token[1].type # "EOF"
         THEN ParseError("unexpected token", r.c.current_token, r.c)
         ELSE r
    ELSE IF r.error = "IndexError"
         THEN ParseError("unexpected end of script", None, r.c)
         ELSE r

\* MSLParser.__init__
NewParser == [tokens |-> <<>>, current_position |-> 0, current_token |-> None]

\* parse left with the result r of steps 4 to 6: the fields of self and the result
parse_done(tokens, r) ==
    [self |-> [tokens |-> tokens,
               current_position |-> r.c.current_position,
               current_token |-> r.c.current_token],
     result |-> r]

\* mutant: an empty script gives an empty sequence node
parse_tokens_EmptyProgram(self, tokens) ==
    IF validate_tokens(tokens) # <<>>
    THEN [self |-> [self EXCEPT !.tokens = tokens],
          result |-> ParseError("token errors", None, StartCursor(tokens))]
    ELSE IF tokens = <<>> \/ tokens[1].type = "EOF"
    THEN parse_done(tokens, Returned(Node("SequentialNode",
                                          _get_position(StartCursor(tokens), None)),
                                     StartCursor(tokens)))
    ELSE parse_done(tokens, finish_parse(parse_expression(tokens, StartCursor(tokens))))

\* steps 3 to 6 of parse, on the filtered tokens
parse_tokens(self, tokens) ==
    IF validate_tokens(tokens) # <<>>
    THEN [self |-> [self EXCEPT !.tokens = tokens],
          result |-> ParseError("token errors", None, StartCursor(tokens))]
    ELSE IF tokens = <<>> \/ tokens[1].type = "EOF"
    THEN parse_done(tokens, ParseError("empty script", None, StartCursor(tokens)))
    ELSE parse_done(tokens, finish_parse(parse_expression(tokens, StartCursor(tokens))))

\* mutant: the tokens of the text are added to those the parser already holds
parse_KeepsTokens(self, text) ==
    parse_tokens(self, self.tokens \o FilterTokens(tokenize(text, NewCursor).tokens))

\* MSLParser.parse(text) on the parser self: the fields it leaves in self and
\* what it returns or raises
parse(self, text) == parse_tokens(self, FilterTokens(tokenize(text, NewCursor).tokens))

(***************************************************************************)
(* MSLParser.analyze_syntax.  The empty dict of statistics is None; the    *)
(* error message str(e) is held as the message and the token it names.     *)
(***************************************************************************)
NoStatistics ==
    [total_nodes |-> 0, key_nodes |-> 0, timing_nodes |-> 0, operator_nodes |-> 0,
     max_depth |-> 0]

Max(a, b) == IF a >= b THEN a ELSE b

\* the first lines of count_nodes: the counters after node, met at depth
count_node(stats, node, depth) ==
    [total_nodes |-> stats.total_nodes + 1,
     key_nodes |-> stats.key_nodes + (IF node.type = "KeyNode" THEN 1 ELSE 0),
     timing_nodes |->
       stats.timing_nodes
       + (IF node.type \in {"DelayNode", "HoldNode", "FadeNode"} THEN 1 ELSE 0),
     operator_nodes |->
       stats.operator_nodes
       + (IF node.type \in {"SequentialNode", "SimultaneousNode", "ParallelNode"}
          THEN 1 ELSE 0),
     max_depth |-> Max(stats.max_depth, depth)]

RECURSIVE count_nodes(_, _, _)
RECURSIVE count_children(_, _, _, _)

\* the for loop of count_nodes over node.children, from the child of index i on
count_children(stats, children, i, depth) ==
    IF i > Len(children) THEN stats
    ELSE count_children(count_nodes(stats, children[i], depth), children, i + 1, depth)

\* count_nodes(node, depth) of _analyze_ast_statistics
count_nodes(stats, node, depth) ==
    count_children(count_node(stats, node, depth), node.children, 1, depth + 1)

\* MSLParser._analyze_ast_statistics
_analyze_ast_statistics(ast) == count_nodes(NoStatistics, ast, 0)

\* mutant: a failed parse is reported as a success without a tree
analysis_SilentFailure(r) ==
    IF r.ok
    THEN [success |-> TRUE, ast |-> <<r.node>>, errors |-> <<>>, warnings |-> <<>>,
          statistics |-> <<_analyze_ast_statistics(r.node)>>]
    ELSE [success |-> TRUE, ast |-> None, errors |-> <<>>, warnings |-> <<>>,
          statistics |-> None]

\* the dict analyze_syntax returns when parse ended as r
analysis(r) ==
    IF r.ok
    THEN [success |-> TRUE, ast |-> <<r.node>>, errors |-> <<>>, warnings |-> <<>>,
          statistics |-> <<_analyze_ast_statistics(r.node)>>]
    ELSE [success |-> FALSE, ast |-> None,
          errors |-> <<[message |-> r.message, token |-> r.token]>>,
          warnings |-> <<>>, statistics |-> None]

\* analyze_syntax around a call of parse that ended as called
analyzed(called) == [self |-> called.self, result |-> analysis(called.result)]

\* MSLParser.analyze_syntax(text) on the parser self
analyze_syntax(self, text) == analyzed(parse(self, text))

(***************************************************************************)
(* The printer of msl_ast.py.  A tree that is printed is built of nodes as *)
(* the parser builds them; a line of the output is held as its indent      *)
(* level and the kind of the node it names.                                *)
(***************************************************************************)
\* one line more, at the indent level of the printer
_print_with_indent(visitor, text) ==
    [visitor EXCEPT !.output = Append(@, [indent |-> visitor.indent_level, text |-> text])]

RECURSIVE accept(_, _)
RECURSIVE visit_each(_, _, _)

\* the loop of _visit_children from the i-th child on
visit_each(children, i, visitor) ==
    IF i > Len(children) THEN visitor
    ELSE visit_each(children, i + 1, accept(children[i], visitor))

\* the children visited one level deeper, and the level taken back
_visit_children(visitor, node) ==
    [visit_each(node.children, 1, [visitor EXCEPT !.indent_level = @ + 1])
       EXCEPT !.indent_level = @ - 1]

\* node.accept(visitor): the visit method of the node's kind.  The methods
\* of the operator kinds and of the group print their line and visit the
\* children; those of the terminals and of the timing kinds print their line
accept(node, visitor) ==
    IF node.type \in {"SequentialNode", "SimultaneousNode", "HoldChainNode",
                      "ParallelNode", "ToggleNode", "RepeatNode", "ContinuousNode",
                      "GroupNode"}
    THEN _visit_children(_print_with_indent(visitor, node.type), node)
    ELSE _print_with_indent(visitor, node.type)

(***************************************************************************)
(* Nodes that are shared: a heap of nodes by name, each with its parent    *)
(* and its children, as MSLNode keeps them.                                *)
(***************************************************************************)
NodeNames == {"a", "b", "c"}

\* self.add_child(child)
MSLNode_add_child(heap, self, child) ==
    [[heap EXCEPT ![child].parent = <<self>>] EXCEPT ![self].children = Append(@, child)]

\* self.remove_child(child); list.remove takes the first occurrence away
MSLNode_remove_child(heap, self, child) ==
    LET list == heap[self].children
        found == {i \in 1..Len(list) : list[i] = child}
        first == CHOOSE i \in found : \A j \in found : i <= j
    IN  IF found = {} THEN heap
        ELSE [[heap EXCEPT ![child].parent = None]
                EXCEPT ![self].children =
                  SubSeq(list, 1, first - 1) \o SubSeq(list, first + 1, Len(list))]

(***************************************************************************)
(* The state tracker of server/state_tracker.py.  A session is referenced  *)
(* by its id in active_sessions; storage holds the file written for each   *)
(* session id.  A time is the number of the reading of the clock.          *)
(***************************************************************************)
SessionIds == {"test-session", "non-existent"}

CommandState(command_id, status, start_time) ==
    [command_id |-> command_id, status |-> status, start_time |-> start_time,
     end_time |-> None, result |-> None, error |-> None]

SessionState(session_id, user_id, now) ==
    [session_id |-> session_id, user_id |-> user_id, start_time |-> now,
     last_activity |-> now, commands |-> <<>>, metadata |-> <<>>]

\* one file written for each active session, the other files left as they are
save_state(self) ==
    [self EXCEPT !.storage =
       [id \in DOMAIN self.active_sessions \cup DOMAIN self.storage |->
          IF id \in DOMAIN self.active_sessions THEN self.active_sessions[id]
          ELSE self.storage[id]]]

create_session(self, session_id, user_id, now) ==
    save_state([self EXCEPT !.active_sessions =
                  (session_id :> SessionState(session_id, user_id, now)) @@ @])

\* the session of that id, as a reference, or None
get_session(self, session_id) ==
    IF session_id \in DOMAIN self.active_sessions THEN <<session_id>> ELSE None

\* mutant: the command replaces the commands of the session
set_command_Replaces(self, session_id, command_state) ==
    [self EXCEPT !.active_sessions[session_id].commands =
       (command_state.command_id :> command_state)]

\* session.commands[command_id] = command_state
set_command(self, session_id, command_state) ==
    [self EXCEPT !.active_sessions[session_id].commands =
       (command_state.command_id :> command_state) @@ @]

(***************************************************************************)
(* The scripts.  A script is typed part by part; its text is the           *)
(* concatenation of the parts.  Six families of parts: single characters   *)
(* of every lexical class, operator chains, timing suffixes, literals      *)
(* (wheel, variable, count, comment), mouse coordinates with blanks in the *)
(* gaps, and brackets.                                                     *)
(***************************************************************************)
FreeParts ==
    {<<ch>> : ch \in {"A", "5", ".", " ", "\t", "\n", "#", "@", "$", ",", ">", "<",
                      "*", "&", "(", ")", "?"}}

OpsParts == {<<ch>> : ch \in {"A", "B", ",", "+", "|", ">"}}

TimingParts ==
    {<<"K">>, <<",", "Q">>, <<"(">>, <<")">>, <<">">>,
     <<"(", "5", ")">>, <<"[", "7", "]">>, <<"<", "9", ">">>}

\* a key or two under the prefix, the postfix and the binary operators
NestingParts ==
    {<<"~">>, <<"A">>, <<"B">>, <<">">>, <<",">>, <<"*", "3">>, <<"*", "2">>,
     <<"&", "1", "0", "0">>}

PhraseParts ==
    {WheelUp, WheelDown, <<"*">>, <<"3">>, <<"0">>, <<"0", ".", "5">>,
     <<"$", "c", "o", "m", "b", "o", "1">>, <<"$">>, <<"A">>, <<",">>, <<" ">>,
     <<"#", " ", "x">>, <<"\n">>, <<"*", "3", "{", "2", "}">>}

\* the blank runs of at most n characters
RECURSIVE Blanks(_)
Blanks(n) ==
    IF n = 0 THEN {<<>>}
    ELSE Blanks(n - 1) \cup {Append(g, ch) : g \in Blanks(n - 1), ch \in Blank}

MouseSlots == 10

\* the parts of a mouse coordinate literal, slot by slot: @ ( gap x gap , gap y gap )
MouseSlot(i) ==
    CASE i = 1 -> {<<"@">>}
      [] i = 2 -> {<<"(">>}
      [] i \in {3, 5, 7, 9} -> Blanks(MaxGap)
      [] i = 4 -> {<<"0">>, <<"1", "0">>}
      [] i = 6 -> {<<",">>}
      [] i = 8 -> {<<"2", "0">>, <<"7">>}
      [] i = 10 -> {<<")">>}

BracketParts ==
    {<<"(">>, <<")">>, <<"[">>, <<"]">>, <<"{">>, <<"}">>, <<"<">>, <<">">>,
     <<"Q", ",", "5", "0", "0">>}

\* the texts parsed on a parser that has parsed before
ReuseTexts ==
    {<<>>, <<"A", ",", "B">>, <<"A", "*">>, <<"(", "K">>, <<"?">>,
     <<"K", "(", "5", ")">>}

Text == Flatten(script)

InFamily(parts) == \A i \in 1..Len(script) : script[i] \in parts

Init ==
    /\ script = <<>>
    /\ phase = "input"
    /\ lexer = [position |-> 0, line |-> 1, column |-> 1, tokens |-> <<>>]
    /\ parser = NewParser
    /\ outcome = None
    /\ forest = <<>>
    /\ printer = None
    /\ nodes = [n \in NodeNames |-> [parent |-> None, children |-> <<>>]]
    /\ tracker = [active_sessions |-> <<>>, storage |-> <<>>]
    /\ tasks = [t \in 1..MaxTasks |->
                  [pc |-> "idle", session_id |-> None, session |-> None,
                   command_state |-> None, result |-> None]]
    /\ clock = 0

\* one more character of any lexical class
TypeFree ==
    /\ phase = "input"
    /\ Len(script) < MaxFree
    /\ InFamily(FreeParts)
    /\ \E part \in FreeParts : script' = Append(script, part)
    /\ UNCHANGED <<phase, lexer, parser, outcome, forest, printer, nodes, tracker, tasks, clock>>

\* one more operand or binary operator
TypeOps ==
    /\ phase = "input"
    /\ Len(script) < MaxOps
    /\ InFamily(OpsParts)
    /\ \E part \in OpsParts : script' = Append(script, part)
    /\ UNCHANGED <<phase, lexer, parser, outcome, forest, printer, nodes, tracker, tasks, clock>>

\* one more key, bracket or timing suffix
TypeTiming ==
    /\ phase = "input"
    /\ Len(script) < MaxTiming
    /\ InFamily(TimingParts)
    /\ \E part \in TimingParts : script' = Append(script, part)
    /\ UNCHANGED <<phase, lexer, parser, outcome, forest, printer, nodes, tracker, tasks, clock>>

\* one more literal: a wheel word, a variable, a count, a comment
TypePhrase ==
    /\ phase = "input"
    /\ Len(script) < MaxPhrase
    /\ InFamily(PhraseParts)
    /\ \E part \in PhraseParts : script' = Append(script, part)
    /\ UNCHANGED <<phase, lexer, parser, outcome, forest, printer, nodes, tracker, tasks, clock>>

\* the next part of a mouse coordinate literal
TypeMouse ==
    /\ phase = "input"
    /\ Len(script) < MouseSlots
    /\ \A i \in 1..Len(script) : script[i] \in MouseSlot(i)
    /\ \E part \in MouseSlot(Len(script) + 1) : script' = Append(script, part)
    /\ UNCHANGED <<phase, lexer, parser, outcome, forest, printer, nodes, tracker, tasks, clock>>

\* one more bracket
TypeBrackets ==
    /\ phase = "input"
    /\ Len(script) < MaxBrackets
    /\ InFamily(BracketParts)
    /\ \E part \in BracketParts : script' = Append(script, part)
    /\ UNCHANGED <<phase, lexer, parser, outcome, forest, printer, nodes, tracker, tasks, clock>>

\* one more operator or operand of a nesting
TypeNesting ==
    /\ phase = "input"
    /\ Len(script) < MaxNesting
    /\ InFamily(NestingParts)
    /\ \E part \in NestingParts : script' = Append(script, part)
    /\ UNCHANGED <<phase, lexer, parser, outcome, forest, printer, nodes, tracker, tasks, clock>>

\* the fields of the lexer after a call of tokenize that ended as r
Tokenized(r) ==
    lexer' = [position |-> r.cur.position, line |-> r.cur.line,
              column |-> r.cur.column, tokens |-> r.tokens]

\* MSLLexer(text).tokenize()
Tokenize ==
    /\ phase = "input"
    /\ Tokenized(tokenize(Text, NewCursor))
    /\ phase' = "lexed"
    /\ UNCHANGED <<script, parser, outcome, forest, printer, nodes, tracker, tasks, clock>>

\* tokenize() once more on the lexer that has tokenized
Retokenize ==
    /\ phase = "lexed"
    /\ Tokenized(tokenize(Text, [position |-> lexer.position, line |-> lexer.line,
                                 column |-> lexer.column]))
    /\ phase' = "relexed"
    /\ UNCHANGED <<script, parser, outcome, forest, printer, nodes, tracker, tasks, clock>>

\* validate_msl_syntax(text)
Validate ==
    /\ phase = "input"
    /\ outcome' = <<validate_msl_syntax(Text)>>
    /\ phase' = "validated"
    /\ UNCHANGED <<script, lexer, parser, forest, printer, nodes, tracker, tasks, clock>>

\* the parser and the outcome after a call of parse that ended as r
Parsing(r) ==
    /\ parser' = r.self
    /\ outcome' = <<r.result>>

\* parse(text) of another text on the parser that has parsed before
Reparse ==
    /\ phase \in {"parsed", "reparsed"}
    /\ \E text \in ReuseTexts :
         /\ script' = <<text>>
         /\ Parsing(parse(parser, text))
    /\ phase' = "reparsed"
    /\ UNCHANGED <<lexer, forest, printer, nodes, tracker, tasks, clock>>

\* MSLParser().analyze_syntax(text)
Analyze ==
    /\ phase = "input"
    /\ Parsing(analyze_syntax(parser, Text))
    /\ phase' = "analyzed"
    /\ UNCHANGED <<script, lexer, forest, printer, nodes, tracker, tasks, clock>>

\* MSLParser().parse(text)
Parse ==
    /\ phase = "input"
    /\ Parsing(parse(parser, Text))
    /\ phase' = "parsed"
    /\ UNCHANGED <<script, lexer, forest, printer, nodes, tracker, tasks, clock>>

Next ==
    \/ TypeFree
    \/ TypeOps
    \/ TypeTiming
    \/ TypeNesting
    \/ Tokenize
    \/ Parse
    \/ Analyze

Spec == Init /\ [][Next]_vars

\* literals and mouse coordinates, lexed and parsed, on fresh and on used
\* lexers and parsers
NextLiterals ==
    \/ TypePhrase
    \/ TypeMouse
    \/ TypeTiming
    \/ Tokenize
    \/ Retokenize
    \/ Parse
    \/ Reparse

SpecLiterals == Init /\ [][NextLiterals]_vars

\* brackets, timing suffixes and characters of every class, validated
NextValidate ==
    \/ TypeBrackets
    \/ TypeTiming
    \/ TypeFree
    \/ Validate

SpecValidate == Init /\ [][NextValidate]_vars

\* a node of any of these kinds is constructed
Construct ==
    /\ printer = None
    /\ count_children(NoStatistics, forest, 1, 0).total_nodes < MaxNodes
    /\ \E kind \in {"KeyNode", "NumberNode", "SequentialNode", "ToggleNode", "RepeatNode",
                    "DelayNode", "HoldNode", "FadeNode", "GroupNode"} :
         forest' = Append(forest, Node(kind, None))
    /\ UNCHANGED <<script, phase, lexer, parser, outcome, printer, nodes, tracker, tasks, clock>>

\* the node constructed last becomes the last child of the one before it
AppendChild ==
    /\ printer = None
    /\ Len(forest) >= 2
    /\ forest' = Append(SubSeq(forest, 1, Len(forest) - 2),
                        add_child(forest[Len(forest) - 1], forest[Len(forest)]))
    /\ UNCHANGED <<script, phase, lexer, parser, outcome, printer, nodes, tracker, tasks, clock>>

\* printer = ASTPrinter(); node.accept(printer), on the tree built last
PrintTree ==
    /\ printer = None
    /\ Len(forest) >= 1
    /\ printer' = <<accept(forest[Len(forest)], [indent_level |-> 0, output |-> <<>>])>>
    /\ UNCHANGED <<script, phase, lexer, parser, outcome, forest, nodes, tracker, tasks, clock>>

NextPrinter ==
    \/ Construct
    \/ AppendChild
    \/ PrintTree

SpecPrinter == Init /\ [][NextPrinter]_vars

\* self.add_child(child) on any two nodes
AddChild ==
    \E self \in NodeNames, child \in NodeNames :
      /\ Len(nodes[self].children) < MaxChildren
      /\ nodes' = MSLNode_add_child(nodes, self, child)
      /\ UNCHANGED <<script, phase, lexer, parser, outcome, forest, printer, tracker, tasks,
                     clock>>

\* self.remove_child(child) on any two nodes
RemoveChild ==
    \E self \in NodeNames, child \in NodeNames :
      /\ nodes' = MSLNode_remove_child(nodes, self, child)
      /\ UNCHANGED <<script, phase, lexer, parser, outcome, forest, printer, tracker, tasks,
                     clock>>

NextNodes ==
    \/ AddChild
    \/ RemoveChild

SpecNodes == Init /\ [][NextNodes]_vars

\* await create_session(session_id), before the calls of start_command are
\* gathered.  Each call is a task of the event loop, its command id
\* <<"cmd", t>>; another task may run where a call awaits
CreateSession ==
    /\ \A t \in 1..MaxTasks : tasks[t].pc = "idle"
    /\ \E session_id \in SessionIds :
         /\ session_id \notin DOMAIN tracker.active_sessions
         /\ tracker' = create_session(tracker, session_id, None, clock)
    /\ clock' = clock + 1
    /\ UNCHANGED <<script, phase, lexer, parser, outcome, forest, printer, nodes, tasks>>

\* start_command(session_id, command_id) is called
Call ==
    \E t \in 1..MaxTasks, session_id \in SessionIds :
      /\ tasks[t].pc = "idle"
      /\ tasks' = [tasks EXCEPT ![t].pc = "called", ![t].session_id = <<session_id>>]
      /\ UNCHANGED <<script, phase, lexer, parser, outcome, forest, printer, nodes, tracker,
                     clock>>

\* session = await self.get_session(session_id)
GetSession ==
    \E t \in 1..MaxTasks :
      /\ tasks[t].pc = "called"
      /\ tasks' = [tasks EXCEPT ![t].pc = "got",
                                ![t].session = get_session(tracker, tasks[t].session_id[1])]
      /\ UNCHANGED <<script, phase, lexer, parser, outcome, forest, printer, nodes, tracker,
                     clock>>

\* if not session: return None; else the command state is made and put
\* into session.commands
Register ==
    \E t \in 1..MaxTasks :
      /\ tasks[t].pc = "got"
      /\ \/ /\ tasks[t].session = None
            /\ tasks' = [tasks EXCEPT ![t].pc = "returned", ![t].result = None]
            /\ UNCHANGED <<tracker, clock>>
         \/ /\ tasks[t].session # None
            /\ tracker' = set_command(tracker, tasks[t].session[1],
                                      CommandState(<<"cmd", t>>, "pending", clock))
            /\ tasks' = [tasks EXCEPT
                           ![t].pc = "registered",
                           ![t].command_state =
                             <<CommandState(<<"cmd", t>>, "pending", clock)>>]
            /\ clock' = clock + 1
      /\ UNCHANGED <<script, phase, lexer, parser, outcome, forest, printer, nodes>>

\* await self.save_state(); return command_state
SaveAndReturn ==
    \E t \in 1..MaxTasks :
      /\ tasks[t].pc = "registered"
      /\ tracker' = save_state(tracker)
      /\ tasks' = [tasks EXCEPT ![t].pc = "returned", ![t].result = tasks[t].command_state]
      /\ UNCHANGED <<script, phase, lexer, parser, outcome, forest, printer, nodes, clock>>

NextTracker ==
    \/ CreateSession
    \/ Call
    \/ GetSession
    \/ Register
    \/ SaveAndReturn

SpecTracker == Init /\ [][NextTracker]_vars

(***************************************************************************)
(* Reading the state.                                                      *)
(***************************************************************************)
Lexed == phase = "lexed"

Parsed == phase = "parsed"

\* what the parse call returned or raised
R == outcome[1]

\* a tree without the source positions of its nodes
RECURSIVE Strip(_)
Strip(n) ==
    LET kids == [i \in 1..Len(n.children) |-> Strip(n.children[i])]
    IN  CASE n.type = "KeyNode" -> [type |-> n.type, children |-> kids, key |-> n.key]
          [] n.type = "VariableNode" -> [type |-> n.type, children |-> kids, name |-> n.name]
          [] n.type = "MouseNode" -> [type |-> n.type, children |-> kids, x |-> n.x, y |-> n.y]
          [] n.type = "WheelNode" ->
               [type |-> n.type, children |-> kids, direction |-> n.direction,
                amount |-> n.amount]
          [] n.type = "NumberNode" -> [type |-> n.type, children |-> kids, value |-> n.value]
          [] n.type = "RepeatNode" ->
               [type |-> n.type, children |-> kids, count |-> n.count,
                interval |-> n.interval]
          [] n.type \in {"DelayNode", "HoldNode", "FadeNode", "ContinuousNode"} ->
               [type |-> n.type, children |-> kids, duration |-> n.duration]
          [] OTHER -> [type |-> n.type, children |-> kids]

KeyTree(ch) == [type |-> "KeyNode", children |-> <<>>, key |-> <<Lower(ch)>>]

(***************************************************************************)
(* C1.  For every text, the empty one and one of unrecognized characters   *)
(* included, tokenize returns a token sequence with exactly one EOF token, *)
(* its last element; every iteration of its loop moves the cursor forward, *)
(* so the loop ends, with the cursor at the end of the text.               *)
(***************************************************************************)
C1_TokenizeEndsWithOneEOF ==
    Lexed =>
      /\ Len(lexer.tokens) >= 1
      /\ lexer.tokens[Len(lexer.tokens)].type = "EOF"
      /\ \A i \in 1..(Len(lexer.tokens) - 1) : lexer.tokens[i].type # "EOF"
      /\ lexer.position = Len(Text)
      /\ \A p \in 0..(Len(Text) - 1) :
           LexStep(Text, [position |-> p, line |-> 1, column |-> 1]).cur.position > p

C1_Witness ==
    /\ Lexed
    /\ Text = <<"?", "\n", "?">>
    /\ Len(lexer.tokens) = 4
    /\ lexer.tokens[1].type = "UNKNOWN"
    /\ lexer.tokens[4].type = "EOF"

(***************************************************************************)
(* C2.  A chain of n >= 2 keys joined by one and the same binary operator  *)
(* parses to one flat node of that operator whose n children are the keys  *)
(* in source order.                                                        *)
(***************************************************************************)
OperatorNode(ch) ==
    CASE ch = "," -> "SequentialNode"
      [] ch = "+" -> "SimultaneousNode"
      [] ch = "|" -> "ParallelNode"
      [] ch = ">" -> "HoldChainNode"

BinaryOps == {",", "+", "|", ">"}

KeyChars == {"A", "B"}

\* operand (operator operand)*, at least one operator
IsOperatorScript ==
    /\ Len(script) >= 3
    /\ Len(script) % 2 = 1
    /\ \A i \in 1..Len(script) :
         /\ Len(script[i]) = 1
         /\ script[i][1] \in (IF i % 2 = 1 THEN KeyChars ELSE BinaryOps)

IsChain == IsOperatorScript /\ \A i \in 1..Len(script) : i % 2 = 0 => script[i] = script[2]

C2_ChainIsOneFlatNode ==
    (Parsed /\ IsChain) =>
      /\ R.ok
      /\ R.node.type = OperatorNode(script[2][1])
      /\ Len(R.node.children) = (Len(script) + 1) \div 2
      /\ \A i \in 1..Len(R.node.children) :
           Strip(R.node.children[i]) = KeyTree(script[2 * i - 1][1])

C2_Witness ==
    /\ Parsed
    /\ Text = <<"A", ",", "B", ",", "A">>
    /\ R.ok
    /\ Len(R.node.children) = 3

(***************************************************************************)
(* C3.  ',' binds loosest, then '+', then '|', then '>': the tree of a     *)
(* script of keys and binary operators is the one obtained by splitting    *)
(* the script at every ',', each piece at every '+', each of those at      *)
(* every '|' and each of those at every '>'.                               *)
(***************************************************************************)
LevelOp(level) ==
    CASE level = 1 -> ","
      [] level = 2 -> "+"
      [] level = 3 -> "|"
      [] level = 4 -> ">"

\* the pieces of the character sequence s between the occurrences of op
RECURSIVE Pieces(_, _)
Pieces(s, op) ==
    IF \A i \in 1..Len(s) : s[i] # op THEN <<s>>
    ELSE LET k == CHOOSE i \in 1..Len(s) : s[i] = op /\ \A j \in 1..(i - 1) : s[j] # op
         IN  <<SubSeq(s, 1, k - 1)>> \o Pieces(SubSeq(s, k + 1, Len(s)), op)

RECURSIVE PrecedenceTree(_, _)
PrecedenceTree(s, level) ==
    IF level = 5 THEN KeyTree(s[1])
    ELSE LET ps == Pieces(s, LevelOp(level))
         IN  IF Len(ps) = 1 THEN PrecedenceTree(s, level + 1)
             ELSE [type |-> OperatorNode(LevelOp(level)),
                   children |-> [i \in 1..Len(ps) |-> PrecedenceTree(ps[i], level + 1)]]

C3_LooserOperatorsHoldTighterSubtrees ==
    (Parsed /\ IsOperatorScript) =>
      /\ R.ok
      /\ Strip(R.node) = PrecedenceTree(Text, 1)

C3_Witness ==
    /\ Parsed
    /\ Text = <<"A", ",", "B", "+", "A">>
    /\ R.ok
    /\ R.node.type = "SequentialNode"
    /\ Len(R.node.children) = 2
    /\ R.node.children[2].type = "SimultaneousNode"

(***************************************************************************)
(* C4.  A script with a '*' or '&' that is not directly followed by a      *)
(* Number token never parses: parse raises ParseError and returns no tree. *)
(* When that operator is the first thing wrong with the script (the parser *)
(* gets past it once it is given a number), the error carries the token    *)
(* right after the operator, which is the EOF token at the end of input.   *)
(***************************************************************************)
LacksNumber(tokens) ==
    {i \in 1..(Len(tokens) - 1) :
       /\ tokens[i].type \in {"STAR", "AMPERSAND"}
       /\ tokens[i + 1].type # "NUMBER"}

\* the token list with a number put right after the token i
WithNumber(tokens, i) ==
    SubSeq(tokens, 1, i)
      \o <<Token("NUMBER", <<"1">>, tokens[i].line, tokens[i].column, tokens[i].position)>>
      \o SubSeq(tokens, i + 1, Len(tokens))

\* with its number, the operator i is consumed: the parse succeeds or fails further on
OperatorIsReached(tokens, i) ==
    /\ validate_tokens(tokens) = <<>>
    /\ LET o == finish_parse(parse_expression(WithNumber(tokens, i),
                                              StartCursor(WithNumber(tokens, i))))
       IN  \/ o.ok
           \/ /\ o.token # None
              /\ o.token[1].position > tokens[i].position

C5_TrailingTokenIsAnError ==
    Parsed =>
      /\ R.ok =>
           /\ parser.current_position = Len(parser.tokens) - 1
           /\ parser.current_token = <<parser.tokens[Len(parser.tokens)]>>
           /\ parser.current_token[1].type = "EOF"
      /\ (validate_tokens(parser.tokens) = <<>> /\ parser.tokens[1].type # "EOF") =>
           LET e == parse_expression(parser.tokens, StartCursor(parser.tokens))
           IN  (e.ok /\ e.c.current_token # None /\ e.c.current_token[1].type # "EOF") =>
                 /\ ~R.ok
                 /\ R.error = "ParseError"
                 /\ R.token = e.c.current_token

C5_Witness ==
    /\ Parsed
    /\ Text = <<"A", " ", "A">>
    /\ ~R.ok
    /\ R.token # None
    /\ R.token[1].type = "KEY"
    /\ R.token[1].position = 2

(***************************************************************************)
(* C6.  The parse of an empty script (nothing but spaces, tabs and a       *)
(* comment) raises ParseError and returns no tree.                         *)
(***************************************************************************)
\* blanks, then possibly a comment that runs to the end of the text
IsEmptyScript(text) ==
    /\ \A i \in 1..Len(text) : text[i] # "\n"
    /\ \A i \in 1..Len(text) :
         text[i] \in Blank \/ \E j \in 1..i : text[j] = "#"

C6_EmptyScriptIsAnError ==
    (Parsed /\ IsEmptyScript(Text)) => (~R.ok /\ R.error = "ParseError")

C6_Witness ==
    /\ Parsed
    /\ Text = <<" ", "#", "A">>
    /\ ~R.ok

(***************************************************************************)
(* C7.  '(' expr ')' parses to a Group node whose single child is the tree *)
(* of expr, and '(' expr without the ')' raises ParseError.                *)
(***************************************************************************)
\* the parse of the parts of the script from a to b, on a parser of its own
Sub(a, b) == parse(NewParser, Flatten(SubSeq(script, a, b))).result

C7_ParenthesesGiveGroupNode ==
    (Parsed /\ Len(script) >= 2 /\ script[1] = <<"(">>) =>
      /\ (script[Len(script)] = <<")">> /\ Sub(2, Len(script) - 1).ok) =>
           /\ R.ok
           /\ R.node.type = "GroupNode"
           /\ Len(R.node.children) = 1
           /\ Strip(R.node.children[1]) = Strip(Sub(2, Len(script) - 1).node)
      /\ Sub(2, Len(script)).ok => (~R.ok /\ R.error = "ParseError")

(***************************************************************************)
(* C8.  "K<9>" parses to Fade{9}[Key(k)]: the fade suffix is consumed with *)
(* its closing '>'.                                                        *)
(***************************************************************************)
Ms(n) == [whole |-> n, frac |-> <<>>]

C8_FadeSuffixIsConsumedWhole ==
    (Parsed /\ script = <<<<"K">>, <<"<", "9", ">">>>>) =>
      /\ R.ok
      /\ Strip(R.node) = [type |-> "FadeNode", children |-> <<KeyTree("K")>>,
                          duration |-> Ms(9)]

(***************************************************************************)
(* C9.  A key with a delay suffix and then a hold suffix, "K(d)[h]", gives *)
(* Hold{h}[Delay{d}[Key(k)]], the delay innermost: alone it is the whole   *)
(* tree, inside a script that parses it is a subtree.                      *)
(***************************************************************************)
RECURSIVE Subtrees(_)
Subtrees(n) == {n} \cup UNION {Subtrees(n.children[i]) : i \in 1..Len(n.children)}

DelayThenHoldTypes ==
    <<"KEY", "LPAREN", "NUMBER", "RPAREN", "LBRACKET", "NUMBER", "RBRACKET">>

\* the tokens from t on are those of K(d)[h]
IsDelayThenHold(tokens, t) ==
    /\ t + 6 <= Len(tokens)
    /\ \A k \in 0..6 : tokens[t + k].type = DelayThenHoldTypes[k + 1]

HoldOfDelayOfKey(tokens, t) ==
    [type |-> "HoldNode",
     children |-> <<[type |-> "DelayNode",
                     children |-> <<[type |-> "KeyNode", children |-> <<>>,
                                     key |-> tokens[t].value]>>,
                     duration |-> ToFloat(tokens[t + 2].value)]>>,
     duration |-> ToFloat(tokens[t + 5].value)]

C9_DelayThenHold ==
    Parsed =>
      /\ (Len(parser.tokens) = 8 /\ IsDelayThenHold(parser.tokens, 1)) =>
           (R.ok /\ Strip(R.node) = HoldOfDelayOfKey(parser.tokens, 1))
      /\ \A t \in 1..Len(parser.tokens) :
           (IsDelayThenHold(parser.tokens, t) /\ R.ok)
           => HoldOfDelayOfKey(parser.tokens, t) \in Subtrees(Strip(R.node))

C9_Witness ==
    /\ Parsed
    /\ Text = <<"K", "(", "5", ")", "[", "7", "]">>
    /\ R.ok
    /\ R.node.type = "HoldNode"
    /\ R.node.duration = Ms(7)
    /\ R.node.children[1].type = "DelayNode"
    /\ R.node.children[1].duration = Ms(5)

(***************************************************************************)
(* C10.  A timing suffix after a parenthesized group, "(K)[7]", parses to  *)
(* a Hold{7} node around the tree of the group, as "K[7]" gives            *)
(* Hold{7}[Key(k)].                                                        *)
(***************************************************************************)
C10_TimingSuffixOnGroup ==
    Parsed =>
      /\ script = <<<<"K">>, <<"[", "7", "]">>>> =>
           /\ R.ok
           /\ Strip(R.node) = [type |-> "HoldNode", children |-> <<KeyTree("K")>>,
                               duration |-> Ms(7)]
      /\ script = <<<<"(">>, <<"K">>, <<")">>, <<"[", "7", "]">>>> =>
           /\ R.ok
           /\ R.node.type = "HoldNode"
           /\ R.node.duration = Ms(7)
           /\ Len(R.node.children) = 1

(***************************************************************************)
(* C11.  A wheel literal parses to a Wheel node of direction +1 for        *)
(* wheel_up and -1 for wheel_down, of amount 1 when no amount is written;  *)
(* "wheel_up*3" parses to Repeat{count:3}[Wheel{direction:+1, amount:1}].  *)
(***************************************************************************)
WheelTree(direction, amount) ==
    [type |-> "WheelNode", children |-> <<>>, direction |-> direction, amount |-> amount]

C11_WheelLiteralGivesWheelNode ==
    Parsed =>
      /\ Text = WheelUp => R.ok /\ Strip(R.node) = WheelTree(1, 1)
      /\ Text = WheelDown => R.ok /\ Strip(R.node) = WheelTree(-1, 1)
      /\ Text = WheelUp \o <<"*", "3">> =>
           /\ R.ok
           /\ Strip(R.node) = [type |-> "RepeatNode", children |-> <<WheelTree(1, 1)>>,
                               count |-> 3, interval |-> None]

(***************************************************************************)
(* C12.  A script that is '$' and an identifier parses to a Variable node  *)
(* whose name is the identifier as written after the '$': the sigil is     *)
(* removed once and no other character is removed.                         *)
(***************************************************************************)
IsVariableScript ==
    /\ Len(Text) >= 2
    /\ Text[1] = "$"
    /\ IdentMatch(Text, 1) = Len(Text) - 1

C12_VariableNameIsIdentifier ==
    Parsed /\ IsVariableScript =>
      /\ R.ok
      /\ Strip(R.node) = [type |-> "VariableNode", children |-> <<>>,
                          name |-> Slice(Text, 1, Len(Text))]

(***************************************************************************)
(* C13.  In every tree returned by parse, each Repeat node has a count of  *)
(* at least 1, whatever count is written, 0 and fractions below 1          *)
(* included.                                                               *)
(***************************************************************************)
C13_RepeatCountAtLeastOne ==
    Parsed /\ R.ok =>
      \A n \in Subtrees(R.node) : n.type = "RepeatNode" => n.count >= 1

(***************************************************************************)
(* C14.  Every character at which the lexer stands and that starts no      *)
(* recognized lexical form, '@' without a coordinate pair and '$' without  *)
(* an identifier included, becomes exactly one Unknown token, one          *)
(* character wide, at the position, line and column of that character, and *)
(* the lexer goes on with the next character.                              *)
(***************************************************************************)
\* the characters that start a lexical form whatever follows them
FormStarts ==
    Blank \cup Digits \cup IdentStart \cup
    {"#", "<", ">", ",", "+", "|", "~", "*", "&", "(", ")", "[", "]", "{", "}", "\n"}

\* the character at 0-based offset p of text starts no recognized form
StartsNoForm(text, p) ==
    \/ text[p + 1] = "@" /\ MouseMatch(text, p).len = 0
    \/ text[p + 1] = "$" /\ IdentMatch(text, p + 1) = 0
    \/ text[p + 1] \notin FormStarts \cup {"@", "$"}

\* the cursors at which the loop of tokenize stands, from cur on
RECURSIVE LexStops(_, _)
LexStops(text, cur) ==
    IF cur.position >= Len(text) THEN {}
    ELSE {cur} \cup LexStops(text, LexStep(text, cur).cur)

TokensAt(tokens, p) ==
    {i \in 1..Len(tokens) : tokens[i].position = p /\ tokens[i].type # "EOF"}

C14_UnrecognizedCharacterIsOneUnknownToken ==
    Lexed =>
      \A cur \in LexStops(Text, NewCursor) :
        StartsNoForm(Text, cur.position) =>
          /\ \E i \in 1..Len(lexer.tokens) :
               /\ TokensAt(lexer.tokens, cur.position) = {i}
               /\ lexer.tokens[i] = Token("UNKNOWN", <<Text[cur.position + 1]>>,
                                          cur.line, cur.column, cur.position)
          /\ LexStep(Text, cur).cur.position = cur.position + 1
          /\ \/ cur.position + 1 = Len(Text)
             \/ \E next \in LexStops(Text, NewCursor) : next.position = cur.position + 1

C14_Witness ==
    /\ Lexed
    /\ Text = <<"@", "$", "?">>
    /\ Len(lexer.tokens) = 4
    /\ \A i \in 1..3 : lexer.tokens[i].type = "UNKNOWN" /\ lexer.tokens[i].position = i - 1

(***************************************************************************)
(* C15.  A line comment, '#' through the end of the line, is discarded by  *)
(* the lexer: tokenize returns no token for it, so the tokens of "A # x"   *)
(* are those of "A " up to the position of EOF.                            *)
(***************************************************************************)
\* a token sequence without its last token, the EOF
WithoutEOF(tokens) == SubSeq(tokens, 1, Len(tokens) - 1)

C15_CommentIsDiscarded ==
    Lexed =>
      /\ \A i \in 1..Len(lexer.tokens) : lexer.tokens[i].type # "COMMENT"
      /\ Text = <<"A", " ", "#", " ", "x">> =>
           WithoutEOF(lexer.tokens) = WithoutEOF(tokenize(<<"A", " ">>, NewCursor).tokens)

(***************************************************************************)
(* C16.  Blanks inside a mouse coordinate literal do not change the token: *)
(* "@(x,y)" with blanks around the contents of the parentheses and around  *)
(* the comma lexes to one MouseCoord token with the kind, the text and the *)
(* x and y of the token of "@(x,y)".                                       *)
(***************************************************************************)
IsMouseScript ==
    /\ Len(script) = MouseSlots
    /\ \A i \in 1..MouseSlots : script[i] \in MouseSlot(i)

\* the literal of the script without its blanks
PlainMouse == <<"@", "(">> \o script[4] \o <<",">> \o script[8] \o <<")">>

C16_BlanksInMouseCoordinate ==
    Lexed /\ IsMouseScript =>
      /\ Len(lexer.tokens) = 2
      /\ lexer.tokens[1].type = "MOUSE_COORD"
      /\ lexer.tokens[1].value = PlainMouse
      /\ lexer.tokens[1] = tokenize(PlainMouse, NewCursor).tokens[1]
      /\ MouseMatch(Text, 0).x = script[4]
      /\ MouseMatch(Text, 0).y = script[8]

C16_Witness ==
    /\ Lexed
    /\ IsMouseScript
    /\ Text = <<"@", "(", " ", "1", "0", " ", ",", " ", "2", "0", " ", ")">>
    /\ lexer.tokens[1].value = <<"@", "(", "1", "0", ",", "2", "0", ")">>

(***************************************************************************)
(* C17.  tokenize called a second time on the same lexer returns the token *)
(* sequence of the first call: the cursor of a call does not outlive it.   *)
(***************************************************************************)
Relexed == phase = "relexed"

C17_SecondTokenizeGivesSameTokens ==
    Relexed => lexer.tokens = tokenize(Text, NewCursor).tokens

(***************************************************************************)
(* C18.  parse(text) on a parser that has parsed before, with success or   *)
(* with an error, gives the outcome it gives on a fresh parser: the same   *)
(* tree, or ParseError at the same token.                                  *)
(***************************************************************************)
Reparsed == phase = "reparsed"

\* what the caller of parse sees: the tree, or the error and its token
Seen(r) ==
    IF r.ok THEN [ok |-> TRUE, node |-> r.node]
    ELSE [ok |-> FALSE, error |-> r.error, message |-> r.message, token |-> r.token]

C18_ReusedParserGivesFreshOutcome ==
    Reparsed => Seen(R) = Seen(parse(NewParser, Text).result)

C18_Witness ==
    /\ Reparsed
    /\ Text = <<"A", ",", "B">>
    /\ R.ok
    /\ R.node.type = "SequentialNode"
    /\ Len(parser.tokens) = 4

(***************************************************************************)
(* Reading the diagnostics of validate_msl_syntax.                         *)
(***************************************************************************)
Validated == phase = "validated"

\* the pair validate_msl_syntax returned
V == outcome[1]

\* the tokens the validator scans
Scanned == tokenize(Text, NewCursor).tokens

\* the stack of open brackets when the scan reaches the token of index i
StackBefore(tokens, i) ==
    bracket_scan(SubSeq(tokens, 1, i - 1), 1, [stack |-> <<>>, errors |-> <<>>]).stack

\* the diagnostics of one kind, as indexes of V.errors
Diagnostics(kind) == {k \in 1..Len(V.errors) : V.errors[k].kind = kind}

\* the top of the stack is an opening bracket that token does not close
DiffersFromTop(stack, token) ==
    stack # <<>> /\ token.type # bracket_pairs(stack[Len(stack)].type)

\* the closing brackets met with another kind of bracket on top of the stack
Mismatches(tokens) ==
    {i \in 1..Len(tokens) :
       tokens[i].type \in CloseTypes /\ DiffersFromTop(StackBefore(tokens, i), tokens[i])}

\* the closing brackets met with an empty stack
Unmatched(tokens) ==
    {i \in 1..Len(tokens) : tokens[i].type \in CloseTypes /\ StackBefore(tokens, i) = <<>>}

\* the opening brackets with no closing bracket of any kind after them
NeverClosed(tokens) ==
    {j \in 1..Len(tokens) :
       /\ tokens[j].type \in OpenTypes
       /\ \A i \in (j + 1)..Len(tokens) : tokens[i].type \notin CloseTypes}

\* the closing brackets with no opening bracket of any kind before them
NeverOpened(tokens) ==
    {i \in 1..Len(tokens) :
       /\ tokens[i].type \in CloseTypes
       /\ \A j \in 1..(i - 1) : tokens[j].type \notin OpenTypes}

\* the diagnostics of one kind that name token as the bracket they are about
About(kind, field, token) ==
    {k \in 1..Len(V.errors) : V.errors[k].kind = kind /\ V.errors[k][field] = <<token>>}

(***************************************************************************)
(* C19.  A closing bracket whose kind differs from the top of the stack    *)
(* gives exactly one "mismatched bracket" diagnostic, and the scan goes    *)
(* on: the brackets opened after it and never closed are still reported.   *)
(* The tokens of "[Q,500)" give exactly one mismatched-bracket diagnostic. *)
(***************************************************************************)
C19_MismatchIsOneDiagnosticAndScanGoesOn ==
    Validated =>
      LET tokens == Scanned
          mismatches == Mismatches(tokens)
      IN  /\ \A i \in mismatches : Cardinality(About("mismatched", "token", tokens[i])) = 1
          /\ Cardinality(Diagnostics("mismatched")) = Cardinality(mismatches)
          /\ \A j \in NeverClosed(tokens) : About("unclosed", "open_token", tokens[j]) # {}
          /\ Text = <<"[", "Q", ",", "5", "0", "0", ")">> =>
               Cardinality(Diagnostics("mismatched")) = 1 /\ Len(V.errors) = 1

C19_Witness ==
    /\ Validated
    /\ Text = <<"[", ")", "(">>
    /\ Mismatches(Scanned) = {2}
    /\ Len(V.errors) = 2
    /\ V.errors[1].kind = "mismatched"
    /\ V.errors[2].kind = "unclosed"

(***************************************************************************)
(* C20.  One diagnostic per balance defect: one "unmatched closing         *)
(* bracket" for each closing bracket met while the stack is empty, the     *)
(* stack staying empty, and at the end of the stream one "unclosed         *)
(* bracket" for each opening bracket still on the stack.  The tokens of    *)
(* "[Q,500" give exactly one unclosed-bracket diagnostic.                  *)
(***************************************************************************)
C20_OneDiagnosticPerBalanceDefect ==
    Validated =>
      LET tokens == Scanned
          unmatched == Unmatched(tokens)
          left == StackBefore(tokens, Len(tokens) + 1)
      IN  /\ \A i \in unmatched :
               /\ Cardinality(About("unmatched_closing", "token", tokens[i])) = 1
               /\ StackBefore(tokens, i + 1) = <<>>
          /\ Cardinality(Diagnostics("unmatched_closing")) = Cardinality(unmatched)
          /\ NeverOpened(tokens) \subseteq unmatched
          /\ \A k \in 1..Len(left) :
               Cardinality(About("unclosed", "open_token", left[k])) = 1
          /\ Cardinality(Diagnostics("unclosed")) = Len(left)
          /\ \A j \in NeverClosed(tokens) : About("unclosed", "open_token", tokens[j]) # {}
          /\ Text = <<"[", "Q", ",", "5", "0", "0">> =>
               Cardinality(Diagnostics("unclosed")) = 1 /\ Len(V.errors) = 1

C20_Witness ==
    /\ Validated
    /\ Text = <<")", "(", "[">>
    /\ Unmatched(Scanned) = {1}
    /\ Len(V.errors) = 3
    /\ V.errors[1].kind = "unmatched_closing"
    /\ V.errors[2].kind = "unclosed"
    /\ V.errors[3].kind = "unclosed"

(***************************************************************************)
(* C21.  The validator is total and collects every issue in one pass: it   *)
(* returns a pair for every text, with one "unknown token" diagnostic for  *)
(* each Unknown token besides all the bracket diagnostics, and it reports  *)
(* the script valid exactly when the list of diagnostics is empty.         *)
(***************************************************************************)
UnknownTokens(tokens) == {i \in 1..Len(tokens) : tokens[i].type = "UNKNOWN"}

C21_ValidatorCollectsAllIssues ==
    Validated =>
      LET tokens == Scanned
          unknown == UnknownTokens(tokens)
      IN  /\ V.valid \in BOOLEAN
          /\ V.valid <=> V.errors = <<>>
          /\ \A i \in unknown : Cardinality(About("unknown", "token", tokens[i])) = 1
          /\ Cardinality(Diagnostics("unknown")) = Cardinality(unknown)
          /\ Len(V.errors) =
               Cardinality(unknown) + Cardinality(Mismatches(tokens))
               + Cardinality(Unmatched(tokens))
               + Len(StackBefore(tokens, Len(tokens) + 1))

C21_Witness ==
    /\ Validated
    /\ Text = <<"?", ")", "?">>
    /\ ~V.valid
    /\ Len(V.errors) = 3
    /\ V.errors[1].kind = "unmatched_closing"
    /\ V.errors[2].kind = "unknown"
    /\ V.errors[3].kind = "unknown"

(***************************************************************************)
(* C22.  A failed parse gives no partial tree: parse returns a tree that   *)
(* covers every token or raises ParseError, and analyze_syntax then        *)
(* returns success False with ast None, no statistics and exactly one      *)
(* error message; on success it returns the tree with no error.            *)
(***************************************************************************)
Analyzed == phase = "analyzed"

\* the dict analyze_syntax returned
A == outcome[1]

NoPartialTree(r) ==
    IF r.ok
    THEN /\ A.success
         /\ A.ast = <<r.node>>
         /\ A.errors = <<>>
         /\ A.statistics # None
         /\ A.statistics[1].total_nodes = Cardinality(Subtrees(r.node))
         /\ r.c.current_token # None
         /\ r.c.current_token[1].type = "EOF"
    ELSE /\ ~A.success
         /\ A.ast = None
         /\ A.statistics = None
         /\ Len(A.errors) = 1
         /\ A.errors[1].token = r.token
         /\ r.error = "ParseError"
         /\ "node" \notin DOMAIN r

C22_FailedParseGivesNoPartialTree ==
    Analyzed => NoPartialTree(parse(NewParser, Text).result)

C22_Witness ==
    /\ Analyzed
    /\ Text = <<"A", ",", "B", ",">>
    /\ ~A.success
    /\ A.ast = None
    /\ A.errors[1].token # None
    /\ A.errors[1].token[1].type = "EOF"

(***************************************************************************)
(* C23.  In a script that parses, the nodes of each terminal kind are as   *)
(* many as the tokens of that kind, where a NUMBER token that is the       *)
(* operand of a timing suffix, of '&' or of '*' and its interval is held   *)
(* by that node and is no Number node.  (As first stated, with every       *)
(* NUMBER token counted as a terminal: C23_TerminalsEqualLiteralTokens.)   *)
(***************************************************************************)
TerminalNodes == {"KeyNode", "NumberNode", "VariableNode", "MouseNode", "WheelNode"}

LiteralTokens == {"KEY", "NUMBER", "VARIABLE", "MOUSE_COORD", "WHEEL"}

\* the nodes that hold one number as a field
HoldsNumber == {"DelayNode", "HoldNode", "FadeNode", "ContinuousNode", "RepeatNode"}

\* what is counted in n: a node whose type is in types, and for Intervals a
\* repeat node with an interval
Intervals == {"interval"}

Counts(n, types) ==
    IF types = Intervals THEN n.type = "RepeatNode" /\ n.interval # None
    ELSE n.type \in types

RECURSIVE CountNodes(_, _)
RECURSIVE CountIn(_, _, _)

\* the nodes of the tree n that are counted
CountNodes(n, types) == (IF Counts(n, types) THEN 1 ELSE 0) + CountIn(n.children, 1, types)

CountIn(children, i, types) ==
    IF i > Len(children) THEN 0
    ELSE CountNodes(children[i], types) + CountIn(children, i + 1, types)

CountTokens(tokens, types) == Cardinality({i \in 1..Len(tokens) : tokens[i].type \in types})

C23_TerminalsEqualTokensBesideOperands ==
    Parsed /\ R.ok =>
      /\ CountNodes(R.node, {"KeyNode"}) = CountTokens(parser.tokens, {"KEY"})
      /\ CountNodes(R.node, {"VariableNode"}) = CountTokens(parser.tokens, {"VARIABLE"})
      /\ CountNodes(R.node, {"MouseNode"}) = CountTokens(parser.tokens, {"MOUSE_COORD"})
      /\ CountNodes(R.node, {"WheelNode"}) = CountTokens(parser.tokens, {"WHEEL"})
      /\ CountNodes(R.node, {"NumberNode"}) + CountNodes(R.node, HoldsNumber)
           + CountNodes(R.node, Intervals)
           = CountTokens(parser.tokens, {"NUMBER"})

C23_Witness ==
    /\ Parsed
    /\ Text = <<"A", "*", "3", "{", "2", "}">>
    /\ R.ok
    /\ CountNodes(R.node, {"KeyNode"}) = 1
    /\ CountNodes(R.node, {"NumberNode"}) = 0
    /\ CountNodes(R.node, Intervals) = 1
    /\ CountTokens(parser.tokens, {"NUMBER"}) = 2

C23_TerminalsEqualLiteralTokens ==
    Parsed /\ R.ok =>
      CountNodes(R.node, TerminalNodes)
        = CountTokens(parser.tokens, LiteralTokens)

(***************************************************************************)
(* C24.  A line break between two tokens of a script that parses does not  *)
(* change the tree: where the script with a blank in the place of each     *)
(* line break parses, the script with the line breaks parses to the same   *)
(* tree.                                                                   *)
(***************************************************************************)
\* the text with a blank in the place of each line break
Unbroken(text) == [i \in 1..Len(text) |-> IF text[i] = "\n" THEN " " ELSE text[i]]

\* kind and lexeme of the tokens that are no NEWLINE token
Lexemes(tokens) ==
    LET kept == SelectSeq(tokens, LAMBDA t : t.type # "NEWLINE")
    IN  [i \in 1..Len(kept) |-> <<kept[i].type, kept[i].value>>]

\* every line break of the text stands between two tokens
BreaksBetweenTokens(text) ==
    /\ \E i \in 1..Len(text) : text[i] = "\n"
    /\ Lexemes(tokenize(text, NewCursor).tokens)
         = Lexemes(tokenize(Unbroken(text), NewCursor).tokens)

SameTree(r, plain) == plain.ok => r.ok /\ Strip(r.node) = Strip(plain.node)

C24_LineBreakBetweenTokensKeepsTree ==
    Parsed /\ BreaksBetweenTokens(Text) => SameTree(R, parse(NewParser, Unbroken(Text)).result)

(***************************************************************************)
(* C25.  The printer prints one line for each node of the tree, a parent   *)
(* before its children and the children in stored order, each line one     *)
(* level deeper than the line of the parent, and ends at the indent level  *)
(* it began with: the output is the preorder listing of the tree.          *)
(***************************************************************************)
Printed == printer # None

RECURSIVE Preorder(_, _)
RECURSIVE PreorderOf(_, _, _)

\* the lines of the nodes of a tree in preorder, the root at that depth
Preorder(node, depth) ==
    <<[indent |-> depth, text |-> node.type]>> \o PreorderOf(node.children, 1, depth + 1)

PreorderOf(children, i, depth) ==
    IF i > Len(children) THEN <<>>
    ELSE Preorder(children[i], depth) \o PreorderOf(children, i + 1, depth)

RECURSIVE IsSyntaxTree(_)

\* a terminal has no child and a timing wrapper has one
IsSyntaxTree(node) ==
    /\ node.type \in {"KeyNode", "NumberNode", "VariableNode", "MouseCoordNode", "WheelNode"}
         => node.children = <<>>
    /\ node.type \in {"DelayNode", "HoldNode", "FadeNode"} => Len(node.children) = 1
    /\ \A i \in 1..Len(node.children) : IsSyntaxTree(node.children[i])

C25_PrinterVisitsEveryNodeInPreorder ==
    Printed /\ IsSyntaxTree(forest[Len(forest)]) =>
      /\ printer[1].output = Preorder(forest[Len(forest)], 0)
      /\ printer[1].indent_level = 0

(***************************************************************************)
(* C29.  After any calls of add_child and remove_child: each child of a    *)
(* node has that node as its parent, no node is a child of two nodes or    *)
(* twice a child of one, and no node is its own ancestor.                  *)
(***************************************************************************)
ChildrenOf(n) == {nodes[n].children[i] : i \in 1..Len(nodes[n].children)}

\* the nodes reached from n by at most k steps to a child, one step at least
RECURSIVE Below(_, _)
Below(n, k) ==
    IF k = 0 THEN {}
    ELSE ChildrenOf(n) \cup UNION {Below(c, k - 1) : c \in ChildrenOf(n)}

C29_SingleOwnership ==
    /\ \A n \in NodeNames : \A c \in ChildrenOf(n) : nodes[c].parent = <<n>>
    /\ \A n \in NodeNames, m \in NodeNames : n # m => ChildrenOf(n) \cap ChildrenOf(m) = {}
    /\ \A n \in NodeNames : Cardinality(ChildrenOf(n)) = Len(nodes[n].children)
    /\ \A n \in NodeNames : n \notin Below(n, Cardinality(NodeNames))

(***************************************************************************)
(* C30.  Calls of start_command with distinct command ids that run         *)
(* interleaved lose nothing: a call on an existing session returns its     *)
(* command state, the session holds exactly the commands registered so     *)
(* far, each pending and without end time; a call on a session that does   *)
(* not exist returns None and no step of it changes the tracker.           *)
(***************************************************************************)
\* the calls that have registered their command with the session
RegisteredOn(session_id) ==
    {t \in 1..MaxTasks : /\ tasks[t].pc \in {"registered", "returned"}
                         /\ tasks[t].session = <<session_id>>}

Exists(session_id) == session_id \in DOMAIN tracker.active_sessions

NothingLost ==
    /\ \A t \in 1..MaxTasks :
         tasks[t].pc = "returned" =>
           IF Exists(tasks[t].session_id[1])
           THEN /\ tasks[t].result # None
                /\ tasks[t].result[1].command_id = <<"cmd", t>>
           ELSE tasks[t].result = None
    /\ \A id \in DOMAIN tracker.active_sessions :
         LET commands == tracker.active_sessions[id].commands
         IN  /\ DOMAIN commands = {<<"cmd", t>> : t \in RegisteredOn(id)}
             /\ \A c \in DOMAIN commands :
                  /\ commands[c].command_id = c
                  /\ commands[c].status = "pending"
                  /\ commands[c].end_time = None

\* a step of a call on a session that does not exist
MissingSessionStep ==
    \E t \in 1..MaxTasks :
      /\ tasks[t].pc # "idle"
      /\ tasks'[t] # tasks[t]
      /\ ~Exists(tasks[t].session_id[1])

C30_ConcurrentStartCommandLosesNothing ==
    /\ []NothingLost
    /\ [][MissingSessionStep => tracker' = tracker]_vars

C30_Witness ==
    /\ \A t \in 1..MaxTasks : tasks[t].pc = "returned"
    /\ Cardinality(RegisteredOn("test-session")) = MaxTasks - 1
    /\ Cardinality(DOMAIN tracker.active_sessions["test-session"].commands) = MaxTasks - 1
    /\ \E t \in 1..MaxTasks :
         tasks[t].session_id = <<"non-existent">> /\ tasks[t].result = None
    /\ \E t \in RegisteredOn("test-session"), u \in RegisteredOn("test-session") :
         t < u /\ tasks[t].result[1].start_time > tasks[u].result[1].start_time

(***************************************************************************)
(* C26.  The toggle binds tighter than the repeat, the repeat tighter than *)
(* the continuous, and all three tighter than a binary operator:           *)
(* "~A*3&100" is Continuous{100}[Repeat{3}[Toggle[Key a]]] and "A>B*2" is  *)
(* HoldChain[Key a, Repeat{2}[Key b]]; in a script without parentheses no  *)
(* operand of a toggle is a repeat, a continuous or a binary node, no      *)
(* operand of a repeat a continuous or a binary node, and no operand of a  *)
(* continuous a binary node.                                               *)
(***************************************************************************)
BinaryNodes == {"SequentialNode", "SimultaneousNode", "ParallelNode", "HoldChainNode"}

\* the kinds that bind looser than the kind type
Looser(type) ==
    CASE type = "ToggleNode" -> BinaryNodes \cup {"ContinuousNode", "RepeatNode"}
      [] type = "RepeatNode" -> BinaryNodes \cup {"ContinuousNode"}
      [] type = "ContinuousNode" -> BinaryNodes
      [] OTHER -> {}

RECURSIVE NestsByPrecedence(_)
NestsByPrecedence(n) ==
    \A i \in 1..Len(n.children) :
      /\ n.children[i].type \notin Looser(n.type)
      /\ NestsByPrecedence(n.children[i])

RepeatTree(count, child) ==
    [type |-> "RepeatNode", children |-> <<child>>, count |-> count, interval |-> None]

C26_PostfixAndPrefixNestByPrecedence ==
    Parsed =>
      /\ Text = <<"~", "A", "*", "3", "&", "1", "0", "0">> =>
           /\ R.ok
           /\ Strip(R.node)
                = [type |-> "ContinuousNode",
                   children |->
                     <<RepeatTree(3, [type |-> "ToggleNode", children |-> <<KeyTree("A")>>])>>,
                   duration |-> ToFloat(<<"1", "0", "0">>)]
      /\ Text = <<"A", ">", "B", "*", "2">> =>
           /\ R.ok
           /\ Strip(R.node)
                = [type |-> "HoldChainNode",
                   children |-> <<KeyTree("A"), RepeatTree(2, KeyTree("B"))>>]
      /\ R.ok /\ (\A i \in 1..Len(Text) : Text[i] # "(") => NestsByPrecedence(R.node)

C26_Witness ==
    /\ Parsed
    /\ Text = <<"~", "A", "*", "3", "&", "1", "0", "0">>
    /\ R.ok
    /\ R.node.type = "ContinuousNode"
    /\ R.node.children[1].type = "RepeatNode"
    /\ R.node.children[1].children[1].type = "ToggleNode"

(***************************************************************************)
(* C27.  Each token carries the place of the first character of its        *)
(* lexeme: the text at its offset begins with its lexeme, the offsets grow *)
(* strictly along the tokens, the line is 1 plus the line breaks before    *)
(* the offset and the column 1 plus the characters since the last of them; *)
(* the EOF token is at the length of the text.                             *)
(***************************************************************************)
\* the offsets of the line breaks before the offset at
BreaksBefore(text, at) == {j \in 0..(at - 1) : text[j + 1] = "\n"}

LineAt(text, at) == 1 + Cardinality(BreaksBefore(text, at))

ColumnAt(text, at) ==
    1 + Cardinality({j \in 0..(at - 1) : \A k \in BreaksBefore(text, at) : j > k})

LowerCase(text) == [i \in 1..Len(text) |-> Lower(text[i])]

\* the lexeme of a token but for the case of its letters: the value, after
\* the '$' for a variable
Lexeme(token) ==
    LowerCase(IF token.type = "VARIABLE" THEN <<"$">> \o token.value ELSE token.value)

\* the text at the offset of the token begins with its lexeme, a mouse
\* coordinate with the first character of it
StartsItsLexeme(text, token) ==
    IF token.type = "EOF" THEN token.position = Len(text)
    ELSE /\ token.position < Len(text)
         /\ Lower(text[token.position + 1]) = Lexeme(token)[1]
         /\ token.type # "MOUSE_COORD" =>
              LowerCase(SubSeq(text, token.position + 1, token.position + Len(Lexeme(token))))
                = Lexeme(token)

PlacedAt(text, tokens) ==
    /\ \A i \in 1..Len(tokens) :
         /\ StartsItsLexeme(text, tokens[i])
         /\ tokens[i].line = LineAt(text, tokens[i].position)
         /\ tokens[i].column = ColumnAt(text, tokens[i].position)
    /\ \A i \in 1..(Len(tokens) - 1) : tokens[i].position < tokens[i + 1].position

C27_TokenCarriesPlaceOfItsFirstCharacter == Lexed => PlacedAt(Text, lexer.tokens)

C27_Witness ==
    /\ Lexed
    /\ Text = <<"A", "\n", "$", "c", "o", "m", "b", "o", "1">>
    /\ Len(lexer.tokens) = 4
    /\ lexer.tokens[3].type = "VARIABLE"
    /\ lexer.tokens[3].position = 2
    /\ lexer.tokens[3].line = 2
    /\ lexer.tokens[3].column = 1
    /\ lexer.tokens[4].position = 9

(***************************************************************************)
(* C28.  A script whose brackets of the four kinds are closed by their     *)
(* closers in nested order, and that has no comment and no token of        *)
(* unknown kind, is valid: the validator returns no diagnostic.            *)
(***************************************************************************)
Closer(ch) ==
    CASE ch = "(" -> ")"
      [] ch = "[" -> "]"
      [] ch = "{" -> "}"
      [] ch = "<" -> ">"

\* the brackets of the text from the i-th character on close those of the
\* stack open and each other, in nested order
RECURSIVE Nested(_, _, _)
Nested(text, i, open) ==
    IF i > Len(text) THEN open = <<>>
    ELSE IF text[i] \in {"(", "[", "{", "<"} THEN Nested(text, i + 1, Append(open, text[i]))
    ELSE IF text[i] \in {")", "]", "}", ">"}
    THEN /\ open # <<>>
         /\ Closer(open[Len(open)]) = text[i]
         /\ Nested(text, i + 1, SubSeq(open, 1, Len(open) - 1))
    ELSE Nested(text, i + 1, open)

BalancedInput(text, tokens) ==
    /\ Nested(text, 1, <<>>)
    /\ \A i \in 1..Len(text) : text[i] # "#"
    /\ UnknownTokens(tokens) = {}

C28_BalancedInputIsValid ==
    Validated /\ BalancedInput(Text, Scanned) => V.valid /\ V.errors = <<>>

====
